---- MODULE Spec2Model ----
(***************************************************************************)
(* A model of talkat's process lifecycle: the PID files and the lock of a  *)
(* logical name, the CLI commands that read and write them (cli.py), the   *)
(* ProcessManager (process_manager.py) and the listen session             *)
(* (main.py: run_listen_command).                                          *)
(*                                                                         *)
(* Files are modelled with inodes: a path names an inode, an open file     *)
(* keeps its inode, and the content of an inode is a sequence of character *)
(* codes (ASCII), so that str(pid) and int(text.strip()) are computed.     *)
(***************************************************************************)
EXTENDS Integers, Sequences, FiniteSets, TLC

\* Number of commands the user runs; each may spawn one child process.
MaxInvocations == 2

\* Process slots: the invocations and the children they spawn.
MaxProcs == 2 * MaxInvocations

Procs == 1..MaxProcs

Names == {"listen", "long_dictation"}

\* The PID of the process in slot p; one live process that is not a talkat
\* process (its cmdline does not contain "talkat"); one PID of no process.
PidOf(p) == 10 + p
ForeignPid == PidOf(MaxProcs + 1)
DeadPid == PidOf(MaxProcs + 2)

\* ------------------------------------------------------------------ text
IsDigit(c) == c >= 48 /\ c <= 57
IsSpace(c) == c = 32 \/ c = 10 \/ c = 9

RECURSIVE Str(_)
\* str(pid) for pid >= 0: the decimal digits, as character codes.
Str(n) == IF n < 10 THEN <<48 + n>> ELSE Append(Str(n \div 10), 48 + (n % 10))

RECURSIVE LStrip(_)
LStrip(s) == IF s # <<>> /\ IsSpace(Head(s)) THEN LStrip(Tail(s)) ELSE s

RECURSIVE RStrip(_)
RStrip(s) ==
  IF s # <<>> /\ IsSpace(s[Len(s)]) THEN RStrip(SubSeq(s, 1, Len(s) - 1)) ELSE s

\* text.strip()
Strip(s) == RStrip(LStrip(s))

RECURSIVE DigitsValue(_)
DigitsValue(s) ==
  IF s = <<>> THEN 0 ELSE 10 * DigitsValue(SubSeq(s, 1, Len(s) - 1)) + (s[Len(s)] - 48)

\* int(text) succeeds (no ValueError): a non-empty run of digits.
IsInt(s) == s # <<>> /\ \A i \in 1..Len(s) : IsDigit(s[i])

\* int(f.read().strip()); 0 stands for ValueError.
ParsePid(text) == IF IsInt(Strip(text)) THEN DigitsValue(Strip(text)) ELSE 0

\* A PID file that holds something that is not a PID ("x\n").
Garbage == <<120, 10>>

\* ------------------------------------------------------------------ state
VARIABLES
  cmd,        \* cmd[p]: the command slot p runs, "none" before it starts
  pc,         \* pc[p]: where process p is
  site,       \* site[p]: the call site the running-check returns to
  rd,         \* rd[p]: the PID the process read (local variable pid)
  fd,         \* fd[p]: the inode of the file the process has open, <<>> if none
  st,         \* st[p]: exit status, -1 while running
  stopFlag,   \* stopFlag[p]: stop_recording (threading.Event)
  handlers,   \* handlers[p]: the process has installed its signal handlers
  pend,       \* pend[p]: signals sent to p and not yet handled
  pidPath,    \* pidPath[n]: <<inode>> of <name>.pid, <<>> if no such file
  tmpPath,    \* tmpPath[n]: <<inode>> of <name>.tmp, <<>> if no such file
  data,       \* data[i]: content of inode i
  foreignSigs,\* signals sent to the process that is not a talkat process
  sawPartial, \* some reader read a PID file that was empty (truncated)
  stopPending,\* stopPending[p]: a stop/toggle request found no PID file while
              \* p had started and not yet registered
  lockHolder, \* lockHolder[n]: the process that holds flock(<name>.lock), 0 if free
  pm,         \* pm[p]: the locals of p's ProcessManager.toggle() call
  micOpen,    \* micOpen[p]: p's PyAudio input stream is open
  chunks,     \* chunks[p]: total_chunks_processed of p's stream_audio_with_vad
  speaking,   \* speaking[p]: is_speaking of p's stream_audio_with_vad
  silent,     \* silent[p]: silent_chunks_count of p's stream_audio_with_vad
  devErr,     \* devErr[p]: what went wrong with p's input device: "none", "open"
              \* (no microphone, or the stream could not be opened), "read"
  net,        \* net[p]: "failed" once a streaming request of p has failed with a
              \* network error, "retried" once p has issued a request after that
  cal,        \* one calibrate_microphone call: its configuration, the volumes it
              \* has measured, how it ended and the value it returned (hundredths)
  session,    \* the DictationSession of an EnhancedLongDictation, the position of
              \* add_text and of _save_transcript, and the last snapshot saved
  req,        \* the body of one streaming request as request_data_generator
              \* produces it from the chunks the segmenter yields
  seg         \* the locals of one stream_audio_with_vad call taken chunk by chunk,
              \* with the volumes it has read and the chunks it has yielded

fsVars == <<pidPath, tmpPath, data>>
procVars == <<cmd, pc, site, rd, fd, st, stopFlag, handlers, pend>>
histVars == <<foreignSigs, sawPartial, stopPending>>
pmVars == <<lockHolder, pm>>
auxVars == <<req, net, cal, session>>
sessVars == <<micOpen, chunks, speaking, silent, devErr, seg, auxVars>>
vars == <<cmd, pc, site, rd, fd, st, stopFlag, handlers, pend,
          pidPath, tmpPath, data, foreignSigs, sawPartial, stopPending, lockHolder, pm,
          micOpen, chunks, speaking, silent, devErr, seg, auxVars>>

\* The inode of the file that exists at start under name n; process p creates
\* at most one file, inode p.
InitIno(n) == IF n = "listen" THEN MaxProcs + 1 ELSE MaxProcs + 2
Inodes == 1..(MaxProcs + 2)

\* The logical name a command works on.
NameOf(c) == IF c \in {"listen", "toggle"} THEN "listen" ELSE "long_dictation"

Alive(p) == cmd[p] # "none" /\ pc[p] # "done"

\* os.kill(pid, 0) succeeds: a process with this PID exists.
PidAlive(pid) == pid = ForeignPid \/ \E q \in Procs : PidOf(q) = pid /\ Alive(q)

\* "talkat" in /proc/<pid>/cmdline
IsTalkat(pid) == \E q \in Procs : PidOf(q) = pid /\ Alive(q)

\* The first unused process slot (0 if none is left).
FreeSlot == IF \E q \in Procs : cmd[q] = "none"
            THEN CHOOSE q \in Procs : cmd[q] = "none" /\ \A r \in Procs : r < q => cmd[r] # "none"
            ELSE 0

\* The contents a PID file can be left with by earlier runs.
StaleContents == {Str(DeadPid), Str(ForeignPid), Garbage}

InitFs ==
  /\ pidPath \in [Names -> {<<>>} \cup {<<InitIno(n)>> : n \in Names}]
  /\ \A n \in Names : pidPath[n] \in {<<>>, <<InitIno(n)>>}
  /\ tmpPath = [n \in Names |-> <<>>]
  /\ data \in [Inodes -> {<<>>} \cup StaleContents]
  /\ \A i \in Inodes :
       IF \E n \in Names : pidPath[n] = <<i>> THEN data[i] \in StaleContents
       ELSE data[i] = <<>>

InitProcs ==
  /\ cmd = [p \in Procs |-> "none"]
  /\ pc = [p \in Procs |-> "idle"]
  /\ site = [p \in Procs |-> "main"]
  /\ rd = [p \in Procs |-> 0]
  /\ fd = [p \in Procs |-> <<>>]
  /\ st = [p \in Procs |-> -1]
  /\ stopFlag = [p \in Procs |-> FALSE]
  /\ handlers = [p \in Procs |-> FALSE]
  /\ pend = [p \in Procs |-> {}]

\* The locals of a toggle() call before it has done anything:
\*   verdict   what toggle() returns: "busy", "stopped", "failed", "start"
\*   polls     iterations of stop_process's wait loop so far
\*   sigLog    the signals stop_process has sent, in order
\*   found     what the last is_running() found in the PID file
\*   running   what toggle's own is_running() reported: "yes", "no"
\*   seenDead  a liveness check of stop_process has seen the target gone
\*   finalAlive  stop_process's final check saw the target alive
\*   res       what the last is_running() returned: "yes", "no"
\*   gone      the PID file did not exist when the last is_running() returned
\*   changed   the last is_running() changed the PID path
\*   tries     attempts of acquire_lock that found the lock taken
PmInit == [verdict |-> "none", polls |-> 0, sigLog |-> <<>>, found |-> "none",
           running |-> "none", seenDead |-> FALSE, finalAlive |-> FALSE,
           res |-> "none", gone |-> FALSE, changed |-> FALSE, tries |-> 0]

InitPm ==
  /\ lockHolder = [n \in Names |-> 0]
  /\ pm = [p \in Procs |-> PmInit]

InitHist ==
  /\ foreignSigs = {}
  /\ sawPartial = FALSE
  /\ stopPending = [p \in Procs |-> FALSE]

\* ------------------------------------------------------------------ helpers
\* os.kill(pid, sig) on a live process: the signal becomes pending.
SendSignal(pid, sig) ==
  /\ pend' = [q \in Procs |-> IF PidOf(q) = pid /\ Alive(q) THEN pend[q] \cup {sig} ELSE pend[q]]
  /\ foreignSigs' = IF pid = ForeignPid THEN foreignSigs \cup {sig} ELSE foreignSigs

\* A process of name n that has started and has not yet registered: there is
\* no PID file for a stop request to find it by.
Unregistered(q, n) ==
  /\ Alive(q)
  /\ cmd[q] \in {"listen", "long"}
  /\ NameOf(cmd[q]) = n
  /\ pc[q] \in {"wp_open", "wp_write", "wp_rename"}
  /\ pidPath[n] = <<>>

\* Process p exits with the given status; its locals are gone with it.
Exit(p, status) ==
  /\ pc' = [pc EXCEPT ![p] = "done"]
  /\ st' = [st EXCEPT ![p] = status]
  /\ site' = [site EXCEPT ![p] = "main"]
  /\ rd' = [rd EXCEPT ![p] = 0]
  /\ fd' = [fd EXCEPT ![p] = <<>>]
  /\ stopFlag' = [stopFlag EXCEPT ![p] = FALSE]
  /\ handlers' = [handlers EXCEPT ![p] = FALSE]
  /\ pm' = [pm EXCEPT ![p] = PmInit]

\* The content of the inodes once those that no path names and no process has
\* open are freed.
Freed(d, pp, tp, f) ==
  [i \in Inodes |->
     IF (\E n \in Names : pp[n] = <<i>> \/ tp[n] = <<i>>) \/ (\E q \in Procs : f[q] = <<i>>)
     THEN d[i] ELSE <<>>]

\* ------------------------------------------------------------------ cli.py
\* A user runs "talkat listen", "talkat start-long" or "talkat toggle-long":
\* main() dispatches on args.command; each begins with a running-check.
Invoke(p, c) ==
  /\ p = FreeSlot
  /\ Cardinality({q \in Procs : cmd[q] \in {"listen", "start-long", "toggle-long"}}) < MaxInvocations
  /\ cmd' = [cmd EXCEPT ![p] = c]
  /\ pc' = [pc EXCEPT ![p] = "gp_exists"]
  /\ site' = [site EXCEPT ![p] = IF c = "listen" THEN "main"
                                 ELSE IF c = "toggle-long" THEN "toggle" ELSE "start"]
  /\ UNCHANGED <<rd, fd, st, stopFlag, handlers, pend>>
  /\ UNCHANGED fsVars
  /\ UNCHANGED histVars
  /\ UNCHANGED pmVars
  /\ UNCHANGED sessVars

\* Where get_listen_pid()/get_long_pid() returns to, given its result r
\* (0 for None):
\*   main   (cli.main, "listen"):  pid -> stop_listen_process(), None -> client_main()
\*   toggle (toggle_long_background): pid -> stop_long_background(), None -> start_long_background()
\*   start  (start_long_background):  pid -> return 1, None -> Popen
\*   stop   (stop_*): None -> return 1, pid -> os.kill(pid, SIGINT)
PcAfterGetPid(s, r) ==
  CASE s = "main"   -> IF r # 0 THEN "gp_exists" ELSE "wp_open"
    [] s = "toggle" -> "gp_exists"
    [] s = "start"  -> IF r # 0 THEN "done" ELSE "sl_popen"
    [] s = "stop"   -> IF r # 0 THEN "stop_kill" ELSE "done"

SiteAfterGetPid(s, r) ==
  CASE s = "main"   -> IF r # 0 THEN "stop" ELSE "main"
    [] s = "toggle" -> IF r # 0 THEN "stop" ELSE "start"
    [] s = "start"  -> "start"
    [] s = "stop"   -> "stop"

GetPidReturns(p, r) ==
  IF PcAfterGetPid(site[p], r) = "done"
  THEN Exit(p, 1)
  ELSE /\ pc' = [pc EXCEPT ![p] = PcAfterGetPid(site[p], r)]
       /\ site' = [site EXCEPT ![p] = SiteAfterGetPid(site[p], r)]
       /\ rd' = [rd EXCEPT ![p] = r]
       /\ UNCHANGED <<st, fd, stopFlag, handlers, pm>>

\* get_listen_pid / get_long_pid: PID_FILE.exists()
GetPidExists(p) ==
  /\ pc[p] = "gp_exists"
  /\ cmd[p] \in {"listen", "start-long", "toggle-long"}
  /\ IF pidPath[NameOf(cmd[p])] = <<>>
     THEN /\ GetPidReturns(p, 0)
          /\ stopPending' = [q \in Procs |->
                               stopPending[q] \/ (q # p /\ Unregistered(q, NameOf(cmd[p])))]
     ELSE /\ pc' = [pc EXCEPT ![p] = "gp_read"]
          /\ UNCHANGED <<site, st, rd, fd, stopFlag, handlers, stopPending, pm>>
  /\ UNCHANGED <<cmd, pend, foreignSigs, sawPartial>>
  /\ UNCHANGED fsVars
  /\ UNCHANGED lockHolder
  /\ UNCHANGED sessVars

\* get_*_pid: open(PID_FILE), int(f.read().strip()). A file that has vanished
\* (OSError) or does not hold an integer (ValueError) goes to the except clause.
GetPidRead(p) ==
  /\ pc[p] = "gp_read"
  /\ LET n == NameOf(cmd[p])
         text == IF pidPath[n] = <<>> THEN <<>> ELSE data[pidPath[n][1]]
         pid == IF pidPath[n] = <<>> THEN 0 ELSE ParsePid(text)
     IN /\ pc' = [pc EXCEPT ![p] = IF pid = 0 THEN "gp_unlink" ELSE "gp_probe"]
        /\ rd' = [rd EXCEPT ![p] = pid]
        /\ sawPartial' = (sawPartial \/ (pidPath[n] # <<>> /\ text = <<>>))
  /\ UNCHANGED <<cmd, site, fd, st, stopFlag, handlers, pend, foreignSigs, stopPending>>
  /\ UNCHANGED fsVars
  /\ UNCHANGED pmVars
  /\ UNCHANGED sessVars

\* get_*_pid: os.kill(pid, 0); return pid. No check of whose process it is.
GetPidProbe(p) ==
  /\ pc[p] = "gp_probe"
  /\ IF PidAlive(rd[p])
     THEN GetPidReturns(p, rd[p])
     ELSE /\ pc' = [pc EXCEPT ![p] = "gp_unlink"]
          /\ UNCHANGED <<site, st, rd, fd, stopFlag, handlers, pm>>
  /\ UNCHANGED <<cmd, pend>>
  /\ UNCHANGED fsVars
  /\ UNCHANGED histVars
  /\ UNCHANGED lockHolder
  /\ UNCHANGED sessVars

\* Path.unlink(missing_ok=True), and cleanup_pid_file's
\* "if self.pid_file.exists(): self.pid_file.unlink()": the path names no file.
Unlink(path) == <<>>

\* get_*_pid, except clause: PID_FILE.unlink(missing_ok=True); return None
GetPidUnlink(p) ==
  /\ pc[p] = "gp_unlink"
  /\ pidPath' = [pidPath EXCEPT ![NameOf(cmd[p])] = Unlink(@)]
  /\ GetPidReturns(p, 0)
  /\ UNCHANGED <<cmd, pend, tmpPath>>
  /\ UNCHANGED histVars
  /\ UNCHANGED lockHolder
  /\ data' = Freed(data, pidPath', tmpPath', fd')
  /\ UNCHANGED sessVars

\* stop_listen_process / stop_long_background: os.kill(pid, signal.SIGINT);
\* ProcessLookupError if the process is gone.
StopKill(p) ==
  /\ pc[p] = "stop_kill"
  /\ SendSignal(rd[p], "INT")
  /\ pc' = [pc EXCEPT ![p] = "stop_unlink"]
  /\ st' = [st EXCEPT ![p] = IF PidAlive(rd[p]) THEN 0 ELSE 1]
  /\ UNCHANGED <<cmd, site, rd, fd, stopFlag, handlers, sawPartial, stopPending>>
  /\ UNCHANGED fsVars
  /\ UNCHANGED pmVars
  /\ UNCHANGED sessVars

\* stop_*: PID_FILE.unlink(missing_ok=True); return 0, or 1 after ProcessLookupError
StopUnlink(p) ==
  /\ pc[p] = "stop_unlink"
  /\ pidPath' = [pidPath EXCEPT ![NameOf(cmd[p])] = Unlink(@)]
  /\ Exit(p, st[p])
  /\ UNCHANGED <<cmd, pend, tmpPath>>
  /\ UNCHANGED histVars
  /\ UNCHANGED lockHolder
  /\ data' = Freed(data, pidPath', tmpPath', fd')
  /\ UNCHANGED sessVars

\* start_long_background: subprocess.Popen([..., "talkat.cli", "long"]): the
\* child starts in the first free slot and runs run_long_dictation_command.
StartLongPopen(p) ==
  /\ pc[p] = "sl_popen"
  /\ FreeSlot # 0
  /\ cmd' = [cmd EXCEPT ![FreeSlot] = "long"]
  /\ pc' = [pc EXCEPT ![p] = "sl_open", ![FreeSlot] = "wp_open"]
  /\ rd' = [rd EXCEPT ![p] = PidOf(FreeSlot)]
  /\ UNCHANGED <<site, fd, st, stopFlag, handlers, pend>>
  /\ UNCHANGED fsVars
  /\ UNCHANGED histVars
  /\ UNCHANGED pmVars
  /\ UNCHANGED sessVars

\* open(path, "w"): the file at `path` is created (inode p) or truncated.
OpenW(p, path) == IF path = <<>> THEN <<p>> ELSE path

\* start_long_background: open(PID_FILE, "w")
StartLongOpen(p) ==
  /\ pc[p] = "sl_open"
  /\ LET n == NameOf(cmd[p])
         ino == OpenW(p, pidPath[n])
     IN /\ pidPath' = [pidPath EXCEPT ![n] = ino]
        /\ data' = [data EXCEPT ![ino[1]] = <<>>]
        /\ fd' = [fd EXCEPT ![p] = ino]
  /\ pc' = [pc EXCEPT ![p] = "sl_write"]
  /\ UNCHANGED <<cmd, site, rd, st, stopFlag, handlers, pend, tmpPath>>
  /\ UNCHANGED histVars
  /\ UNCHANGED pmVars
  /\ UNCHANGED sessVars

\* start_long_background: f.write(str(proc.pid)), close; return 0
StartLongWrite(p) ==
  /\ pc[p] = "sl_write"
  /\ Exit(p, 0)
  /\ UNCHANGED <<cmd, pend, pidPath, tmpPath>>
  /\ UNCHANGED histVars
  /\ UNCHANGED lockHolder
  /\ data' = Freed([data EXCEPT ![fd[p][1]] = Str(rd[p])], pidPath', tmpPath', fd')
  /\ UNCHANGED sessVars

\* ------------------------------------------------------- process_manager.py
\* write_pid: open(temp_file, "w") where temp_file is <name>.tmp, the same path
\* for every writer of the name.
WritePidOpen(p) ==
  /\ pc[p] = "wp_open"
  /\ LET n == NameOf(cmd[p])
         ino == OpenW(p, tmpPath[n])
     IN /\ tmpPath' = [tmpPath EXCEPT ![n] = ino]
        /\ data' = [data EXCEPT ![ino[1]] = <<>>]
        /\ fd' = [fd EXCEPT ![p] = ino]
  /\ pc' = [pc EXCEPT ![p] = "wp_write"]
  /\ UNCHANGED <<cmd, site, rd, st, stopFlag, handlers, pend, pidPath>>
  /\ UNCHANGED histVars
  /\ UNCHANGED pmVars
  /\ UNCHANGED sessVars

\* write_pid: f.write(str(pid)) and the close that flushes it.
WritePidWrite(p) ==
  /\ pc[p] = "wp_write"
  /\ fd' = [fd EXCEPT ![p] = <<>>]
  /\ pc' = [pc EXCEPT ![p] = "wp_rename"]
  /\ UNCHANGED <<cmd, site, rd, st, stopFlag, handlers, pend, pidPath, tmpPath>>
  /\ UNCHANGED histVars
  /\ UNCHANGED pmVars
  /\ data' = Freed([data EXCEPT ![fd[p][1]] = Str(PidOf(p))], pidPath', tmpPath', fd')
  /\ UNCHANGED sessVars

\* The file the PID path names after temp_file.rename(self.pid_file).
Renamed(tmp, old) == tmp

\* write_pid: temp_file.rename(self.pid_file). If another writer has already
\* renamed the temporary file away, rename raises FileNotFoundError, which
\* write_pid logs; the caller goes on either way.
WritePidRename(p) ==
  /\ pc[p] = "wp_rename"
  /\ LET n == NameOf(cmd[p])
     IN IF tmpPath[n] = <<>>
        THEN UNCHANGED <<pidPath, tmpPath>>
        ELSE /\ pidPath' = [pidPath EXCEPT ![n] = Renamed(tmpPath[n], pidPath[n])]
             /\ tmpPath' = [tmpPath EXCEPT ![n] = <<>>]
  /\ pc' = [pc EXCEPT ![p] = "install"]
  /\ UNCHANGED <<cmd, site, rd, fd, st, stopFlag, handlers, pend>>
  /\ UNCHANGED histVars
  /\ UNCHANGED pmVars
  /\ data' = Freed(data, pidPath', tmpPath', fd')
  /\ UNCHANGED sessVars

\* ------------------------------------------------------------------ main.py
\* run_listen_command: signal.signal(SIGINT, signal_handler);
\* run_long_dictation_command: setup_signal_handlers(cleanup_pid).
InstallHandlers(p) ==
  /\ pc[p] = "install"
  /\ cmd[p] \in {"listen", "long"}
  /\ handlers' = [handlers EXCEPT ![p] = TRUE]
  /\ pc' = [pc EXCEPT ![p] = "capture"]
  /\ UNCHANGED <<cmd, site, rd, fd, st, stopFlag, pend>>
  /\ UNCHANGED fsVars
  /\ UNCHANGED histVars
  /\ UNCHANGED pmVars
  /\ UNCHANGED sessVars

\* How a capture session ends, and what the return path does:
\*   ok        text recognised or not: cleanup_pid(); return 0
\*   nospeech  the generator was empty: return 0, no cleanup
\*   neterr    connection error, timeout, bad response: return 1, no cleanup
\*   exc       any other exception: cleanup_pid(); return 1
\* The long session returns only through neterr (connection error) and its
\* finally clause cleans up.
Outcomes(c) == IF c = "listen" THEN {"ok", "nospeech", "neterr", "exc"} ELSE {"neterr"}
OutcomeStatus(o) == IF o \in {"ok", "nospeech"} THEN 0 ELSE 1
OutcomeCleans(c, o) == c # "listen" \/ o \in {"ok", "exc"}

\* The capture session of a registered process ends.
CaptureEnds(p, o) ==
  /\ pc[p] = "capture"
  /\ cmd[p] \in {"listen", "long"}
  /\ o \in Outcomes(cmd[p])
  /\ IF OutcomeCleans(cmd[p], o)
     THEN /\ pc' = [pc EXCEPT ![p] = "finish"]
          /\ st' = [st EXCEPT ![p] = OutcomeStatus(o)]
          /\ UNCHANGED <<site, rd, fd, stopFlag, handlers, pend, pm>>
     ELSE /\ Exit(p, OutcomeStatus(o))
          /\ pend' = [pend EXCEPT ![p] = {}]
  /\ UNCHANGED cmd
  /\ UNCHANGED fsVars
  /\ UNCHANGED histVars
  /\ UNCHANGED lockHolder
  /\ UNCHANGED sessVars

\* cleanup_pid() on the way out, then the process exits.
Finish(p) ==
  /\ pc[p] = "finish"
  /\ cmd[p] \in {"listen", "long"}
  /\ pidPath' = [pidPath EXCEPT ![NameOf(cmd[p])] = Unlink(@)]
  /\ Exit(p, st[p])
  /\ pend' = [pend EXCEPT ![p] = {}]
  /\ UNCHANGED <<cmd, tmpPath>>
  /\ UNCHANGED histVars
  /\ UNCHANGED lockHolder
  /\ data' = Freed(data, pidPath', tmpPath', fd')
  /\ UNCHANGED sessVars

\* Mutant of HandlerCleanup: the handler leaves the PID file in place.
HandlerKeepsPidFile(path) == path

\* What the signal handler's cleanup_pid() leaves at the PID path.
HandlerCleanup(path) == Unlink(path)

\* SIGINT reaches process p.
\*   before the handlers are installed: KeyboardInterrupt outside any try, the
\*     process dies (status 130) and cleans nothing up;
\*   listen (run_listen_command.signal_handler): stop_recording.set();
\*     cleanup_pid(); the session goes on until it sees the flag;
\*   long (setup_signal_handlers.signal_handler): cleanup_func(); exit(0), and
\*     the finally clause of run_long_dictation_command cleans up again.
HandleSigint(p) ==
  /\ Alive(p)
  /\ cmd[p] \in {"listen", "long"}
  /\ "INT" \in pend[p]
  /\ IF ~handlers[p]
     THEN /\ Exit(p, 130)
          /\ pend' = [pend EXCEPT ![p] = {}]
          /\ UNCHANGED pidPath
     ELSE /\ pend' = [pend EXCEPT ![p] = @ \ {"INT"}]
          /\ pidPath' = [pidPath EXCEPT ![NameOf(cmd[p])] = HandlerCleanup(@)]
          /\ IF cmd[p] = "long"
             THEN /\ pc' = [pc EXCEPT ![p] = "finish"]
                  /\ st' = [st EXCEPT ![p] = 0]
                  /\ UNCHANGED stopFlag
             ELSE /\ stopFlag' = [stopFlag EXCEPT ![p] = TRUE]
                  /\ UNCHANGED <<pc, st>>
          /\ UNCHANGED <<site, rd, fd, handlers, pm>>
  /\ UNCHANGED <<cmd, tmpPath>>
  /\ UNCHANGED histVars
  /\ UNCHANGED lockHolder
  /\ data' = Freed(data, pidPath', tmpPath', fd')
  /\ UNCHANGED sessVars

\* ---------------------------------------- main.py: the listen session in steps
\* max_total_chunks: the chunks stream_audio_with_vad reads before it stops
\* (max_duration * RATE / CHUNK_SAMPLES in the code).
MaxChunks == 3

\* max_silent_chunks_to_stop (silence_duration * RATE / CHUNK_SAMPLES).
MaxSilent == 1

\* Where a listen process is while its session runs.
SessionPcs == {"capture", "post", "body", "resp"}

\* run_listen_command returns without calling cleanup_pid(); the process exits.
ReturnsUncleaned(p, status) ==
  /\ Exit(p, status)
  /\ pend' = [pend EXCEPT ![p] = {}]
  /\ UNCHANGED <<cmd, lockHolder>>
  /\ UNCHANGED fsVars
  /\ UNCHANGED histVars

\* The session goes on to newpc.
GoesOn(p, newpc) ==
  /\ pc' = [pc EXCEPT ![p] = newpc]
  /\ UNCHANGED <<cmd, site, rd, fd, st, stopFlag, handlers, pend>>
  /\ UNCHANGED fsVars
  /\ UNCHANGED histVars
  /\ UNCHANGED pmVars

\* sample_rate = next(audio_stream_generator_func): stream_audio_with_vad
\* finds the microphone, opens the stream and yields RATE; with no microphone
\* or a failed open the generator is empty and run_listen_command returns 0.
MicOpens(p, ok) ==
  /\ pc[p] = "capture"
  /\ cmd[p] = "listen"
  /\ IF ok
     THEN /\ micOpen' = [micOpen EXCEPT ![p] = TRUE]
          /\ GoesOn(p, "post")
     ELSE /\ ReturnsUncleaned(p, 0)
          /\ UNCHANGED micOpen
  /\ devErr' = [devErr EXCEPT ![p] = IF ok THEN @ ELSE "open"]
  /\ UNCHANGED <<chunks, speaking, silent, seg, auxVars>>

\* requests.post(server_url, data=request_data_generator(), timeout=120)
\* connects to the model server before it sends the body; a ConnectionError
\* makes run_listen_command return 1.
PostConnects(p, ok) ==
  /\ pc[p] = "post"
  /\ cmd[p] = "listen"
  /\ IF ok THEN GoesOn(p, "body") ELSE ReturnsUncleaned(p, 1)
  /\ UNCHANGED sessVars

\* request_data_generator: if stop_recording.is_set(): break. The check is
\* made on a chunk the audio generator has yielded.
FlagSeen(p, yielded) == yielded /\ stopFlag[p]

\* One iteration of stream_audio_with_vad's loop, driven by
\* request_data_generator: a chunk is read, with smoothed volume above the
\* threshold (loud) or not. Before speech a silent chunk is buffered and not
\* yielded; any other chunk is yielded, and request_data_generator checks the
\* stop flag on it. When it breaks, the audio generator stays suspended with
\* its stream open. Resumed, the generator counts the silence and ends the
\* utterance when it exceeds max_silent_chunks_to_stop.
ReadChunk(p, loud) ==
  /\ pc[p] = "body"
  /\ cmd[p] = "listen"
  /\ micOpen[p]
  /\ chunks[p] < MaxChunks
  /\ LET yielded == loud \/ speaking[p]
         stop == FlagSeen(p, yielded)
         count == IF loud THEN 0 ELSE IF speaking[p] THEN silent[p] + 1 ELSE silent[p]
         ends == ~stop /\ ~loud /\ speaking[p] /\ count > MaxSilent
     IN /\ chunks' = [chunks EXCEPT ![p] = @ + 1]
        /\ speaking' = [speaking EXCEPT ![p] = @ \/ loud]
        /\ silent' = [silent EXCEPT ![p] = IF stop THEN @ ELSE count]
        /\ micOpen' = [micOpen EXCEPT ![p] = ~ends]
        /\ UNCHANGED <<seg, devErr, auxVars>>
        /\ GoesOn(p, IF stop \/ ends THEN "resp" ELSE "body")

\* stream_audio_with_vad: total_chunks_processed has reached max_total_chunks;
\* the finally clause closes the stream and the request body is complete.
GeneratorEnds(p) ==
  /\ pc[p] = "body"
  /\ cmd[p] = "listen"
  /\ micOpen[p]
  /\ chunks[p] >= MaxChunks
  /\ micOpen' = [micOpen EXCEPT ![p] = FALSE]
  /\ GoesOn(p, "resp")
  /\ UNCHANGED <<chunks, speaking, silent, seg, devErr, auxVars>>

\* stream_audio_with_vad: stream.read raises an OSError other than input
\* overflow; the loop breaks and the finally clause closes the stream.
ReadFails(p) ==
  /\ pc[p] = "body"
  /\ cmd[p] = "listen"
  /\ micOpen[p]
  /\ chunks[p] < MaxChunks
  /\ micOpen' = [micOpen EXCEPT ![p] = FALSE]
  /\ devErr' = [devErr EXCEPT ![p] = "read"]
  /\ GoesOn(p, "resp")
  /\ UNCHANGED <<chunks, speaking, silent, seg, auxVars>>

\* The request ends: a response with text (o = "ok"); a timeout, an HTTP error
\* status or a body that is not JSON (o = "neterr"); any other exception
\* (o = "exc").
BackendResponds(p, o) ==
  /\ pc[p] = "resp"
  /\ cmd[p] = "listen"
  /\ o \in {"ok", "neterr", "exc"}
  /\ IF OutcomeCleans(cmd[p], o)
     THEN /\ pc' = [pc EXCEPT ![p] = "finish"]
          /\ st' = [st EXCEPT ![p] = OutcomeStatus(o)]
          /\ UNCHANGED <<cmd, site, rd, fd, stopFlag, handlers, pend>>
          /\ UNCHANGED fsVars
          /\ UNCHANGED histVars
          /\ UNCHANGED pmVars
     ELSE ReturnsUncleaned(p, OutcomeStatus(o))
  /\ UNCHANGED sessVars

\* Another invocation's os.kill(pid, signal.SIGINT) reaches a listen process
\* whose session has begun.
SigintArrives(p) ==
  /\ Alive(p)
  /\ cmd[p] = "listen"
  /\ handlers[p]
  /\ pc[p] \in SessionPcs
  /\ "INT" \notin pend[p]
  /\ SendSignal(PidOf(p), "INT")
  /\ UNCHANGED <<cmd, pc, site, rd, fd, st, stopFlag, handlers>>
  /\ UNCHANGED fsVars
  /\ UNCHANGED <<sawPartial, stopPending>>
  /\ UNCHANGED pmVars
  /\ UNCHANGED sessVars

\* ------------------------------------------------ signals to capture processes
\* Where a capture process is once pm.write_pid(os.getpid()) has returned.
RegisteredPcs == {"install", "capture", "finish"}

\* `talkat long`: cli.main calls client_main(mode="long"), which runs
\* run_long_dictation_command; it begins with pm.write_pid(os.getpid()).
InvokeLong(p) ==
  /\ p = FreeSlot
  /\ Cardinality({q \in Procs : cmd[q] # "none"}) < MaxInvocations
  /\ cmd' = [cmd EXCEPT ![p] = "long"]
  /\ pc' = [pc EXCEPT ![p] = "wp_open"]
  /\ UNCHANGED <<site, rd, fd, st, stopFlag, handlers, pend>>
  /\ UNCHANGED fsVars
  /\ UNCHANGED histVars
  /\ UNCHANGED pmVars
  /\ UNCHANGED sessVars

\* The disposition of SIGHUP in process p: setup_signal_handlers sets SIG_IGN
\* (run_long_dictation_command); run_listen_command installs a handler for
\* SIGINT only, so SIGHUP keeps its default action there.
HupIgnored(p) == cmd[p] = "long" /\ handlers[p]

\* SIGHUP reaches a registered capture process: it is ignored, or the default
\* action terminates the process (status 128 + 1) with nothing cleaned up.
Sighup(p) ==
  /\ Alive(p)
  /\ cmd[p] \in {"listen", "long"}
  /\ pc[p] \in RegisteredPcs
  /\ IF HupIgnored(p)
     THEN UNCHANGED <<pc, st, site, rd, fd, stopFlag, handlers, pm, pend>>
     ELSE /\ Exit(p, 129)
          /\ pend' = [pend EXCEPT ![p] = {}]
  /\ UNCHANGED <<cmd, lockHolder>>
  /\ UNCHANGED fsVars
  /\ UNCHANGED histVars
  /\ UNCHANGED sessVars

\* ------------------------------------ record.py: stream_audio_with_vad, the loop
\* SMOOTHING_WINDOW: the number of chunk volumes averaged.
SMOOTHING_WINDOW == 3

\* num_pre_padding_chunks: int(PRE_SPEECH_PADDING_DURATION * RATE / CHUNK_SAMPLES).
num_pre_padding_chunks == 2

\* silence_threshold of the call (0 would be no_vad_mode).
silence_threshold == 1

\* max_total_chunks of the call.
max_total_chunks == MaxChunks + 3

\* The chunks of config "max_recording_duration"
\* (CODE_DEFAULTS["max_recording_duration"] * RATE / CHUNK_SAMPLES).
ConfigMaxChunks == MaxChunks + 2

\* The reads and the read attempts followed in a call: one more than any
\* limit of the call, so that a step beyond the limit would be seen.
MaxTurns == max_total_chunks + 1

\* The volumes a chunk may have: silence, above the threshold by one, and so
\* far above it that its mean with two silent chunks is above it too.
Volumes == {0, silence_threshold + 1, SMOOTHING_WINDOW * silence_threshold + 1}

RECURSIVE SumSeq(_)
SumSeq(s) == IF s = <<>> THEN 0 ELSE Head(s) + SumSeq(Tail(s))

\* collections.deque(maxlen = m).append(x)
DequeAppendUnbounded(q, x, m) == Append(q, x)

DequeAppend(q, x, m) ==
  IF m = 0 THEN <<>>
  ELSE IF Len(q) < m THEN Append(q, x)
  ELSE Append(Tail(q), x)

\* Mutant of SmoothedAbove: the volume of the chunk itself is compared.
LastAbove(h) == h[Len(h)] > seg.silence_threshold

\* smoothed_volume > silence_threshold, smoothed_volume being
\* float(np.mean(volume_history)) of a non-empty history of whole volumes.
SmoothedAbove(h) == SumSeq(h) > seg.silence_threshold * Len(h)

\* Mutant of no_vad_mode: a threshold of 0 is a threshold like any other.
NoVadNever == FALSE

no_vad_mode == seg.silence_threshold = 0

\* Mutant of SilenceExceeded: the utterance ends as the limit is reached.
SilenceReached(n) == n >= MaxSilent

\* silent_chunks_count > max_silent_chunks_to_stop
SilenceExceeded(n) == n > MaxSilent

\* Mutant of WithinLimit: the loop condition lets one more chunk through.
WithinLimitLate == seg.unlimited \/ seg.total_chunks_processed <= seg.max_total_chunks

\* while total_chunks_processed < max_total_chunks (always true of float("inf"))
WithinLimit == seg.unlimited \/ seg.total_chunks_processed < seg.max_total_chunks

\* The call goes on: the generator has not ended, and no more turns of the
\* loop have been taken than are followed.
SegRuns ==
  /\ ~seg.ended
  /\ seg.attempts < MaxTurns

\* stream_audio_with_vad is called with arguments other than those of Init:
\* silence_threshold t; max_duration None or a number; the configuration file
\* has "max_recording_duration" as null, or has a number or no such key.
\* max_duration None is replaced by the configured value, and a value of None
\* becomes float("inf").
SegCall(t, max_duration, configured) ==
  /\ seg.call = "default"
  /\ seg.attempts = 0
  /\ ~seg.ended
  /\ LET given == IF max_duration = "None" THEN configured ELSE max_duration
     IN seg' = [seg EXCEPT !.call = "chosen",
                           !.silence_threshold = t,
                           !.max_duration = max_duration,
                           !.unlimited = (given = "None"),
                           !.max_total_chunks =
                              IF given = "None" THEN 0
                              ELSE IF given = "config" THEN ConfigMaxChunks
                              ELSE max_total_chunks]
  /\ UNCHANGED <<micOpen, chunks, speaking, silent, devErr, auxVars>>
  /\ UNCHANGED procVars
  /\ UNCHANGED fsVars
  /\ UNCHANGED histVars
  /\ UNCHANGED pmVars

\* One turn of the loop that reads a chunk of volume v, the chunk yielded to a
\* consumer that takes all it is given. Chunks are named by their place in
\* capture order.
SegRead(v) ==
  /\ SegRuns
  /\ WithinLimit
  /\ LET c == Len(seg.read) + 1
         h == DequeAppend(seg.volume_history, v, SMOOTHING_WINDOW)
         s0 == [seg EXCEPT !.read = Append(@, v),
                           !.volume_history = h,
                           !.attempts = @ + 1,
                           !.total_chunks_processed = @ + 1]
     IN seg' =
          IF no_vad_mode
          THEN [s0 EXCEPT !.yielded = Append(@, c)]
          ELSE IF SmoothedAbove(h)
          THEN IF ~seg.is_speaking
               THEN [s0 EXCEPT !.is_speaking = TRUE,
                               !.yielded = Append(@ \o seg.pre_speech_buffer, c),
                               !.pre_speech_buffer = <<>>,
                               !.speech_has_started_and_padded = TRUE,
                               !.silent_chunks_count = 0]
               ELSE [s0 EXCEPT !.yielded = Append(@, c),
                               !.silent_chunks_count = 0]
          ELSE IF seg.is_speaking
          THEN [s0 EXCEPT !.yielded = Append(@, c),
                          !.silent_chunks_count = @ + 1,
                          !.ended = SilenceExceeded(seg.silent_chunks_count + 1),
                          !.why = IF SilenceExceeded(seg.silent_chunks_count + 1)
                                  THEN "silence" ELSE @]
          ELSE IF ~seg.speech_has_started_and_padded
          THEN [s0 EXCEPT !.pre_speech_buffer = DequeAppend(@, c, num_pre_padding_chunks)]
          ELSE s0
  /\ UNCHANGED <<micOpen, chunks, speaking, silent, devErr, auxVars>>
  /\ UNCHANGED procVars
  /\ UNCHANGED fsVars
  /\ UNCHANGED histVars
  /\ UNCHANGED pmVars

\* stream.read returns no samples (audio_data_np.size == 0): the turn is
\* counted and nothing else happens.
SegReadEmpty ==
  /\ SegRuns
  /\ WithinLimit
  /\ seg' = [seg EXCEPT !.total_chunks_processed = @ + 1, !.attempts = @ + 1]
  /\ UNCHANGED <<micOpen, chunks, speaking, silent, devErr, auxVars>>
  /\ UNCHANGED procVars
  /\ UNCHANGED fsVars
  /\ UNCHANGED histVars
  /\ UNCHANGED pmVars

\* Mutant of SegOverflow: an input overflow ends the generator like any
\* other read error.
SegOverflowBreaks ==
  /\ SegRuns
  /\ WithinLimit
  /\ seg' = [seg EXCEPT !.attempts = @ + 1, !.ended = TRUE, !.why = "error"]
  /\ UNCHANGED <<micOpen, chunks, speaking, silent, devErr, auxVars>>
  /\ UNCHANGED procVars
  /\ UNCHANGED fsVars
  /\ UNCHANGED histVars
  /\ UNCHANGED pmVars

\* stream.read raises OSError with errno paInputOverflowed: continue, before
\* total_chunks_processed is counted up.
SegOverflow ==
  /\ SegRuns
  /\ WithinLimit
  /\ seg' = [seg EXCEPT !.attempts = @ + 1]
  /\ UNCHANGED <<micOpen, chunks, speaking, silent, devErr, auxVars>>
  /\ UNCHANGED procVars
  /\ UNCHANGED fsVars
  /\ UNCHANGED histVars
  /\ UNCHANGED pmVars

\* stream.read raises an OSError other than an input overflow (break), or the
\* loop condition fails at max_total_chunks: the generator ends.
SegEnds(readError) ==
  /\ ~seg.ended
  /\ IF readError THEN SegRuns /\ WithinLimit ELSE ~WithinLimit
  /\ seg' = [seg EXCEPT !.ended = TRUE,
                        !.attempts = IF readError THEN @ + 1 ELSE @,
                        !.why = IF readError THEN "error" ELSE "limit"]
  /\ UNCHANGED <<micOpen, chunks, speaking, silent, devErr, auxVars>>
  /\ UNCHANGED procVars
  /\ UNCHANGED fsVars
  /\ UNCHANGED histVars
  /\ UNCHANGED pmVars

\* ------------------------ request_data_generator: the body of a streaming request
\* RATE, the sample rate stream_audio_with_vad yields first.
RATE == 16000

\* json.dumps({"rate": rate}).encode("utf-8") + b"\n": {"rate": <digits>} and
\* a newline, as character codes.
HeaderNoNewline(rate) == <<123, 34, 114, 97, 116, 101, 34, 58, 32>> \o Str(rate) \o <<125>>

Header(rate) == <<123, 34, 114, 97, 116, 101, 34, 58, 32>> \o Str(rate) \o <<125, 10>>

\* The bytes of chunk c: a chunk that is yielded has samples, and its bytes
\* are those that were read (here its place and its volume).
ChunkBytes(c) == <<200 + c, seg.read[c]>>

\* The three generators: run_listen_command's checks stop_recording on every
\* chunk it is given, the long-dictation ones do not.
Modes == {"listen", "long", "enhanced"}

\* requests asks the generator for its first item: the header line.
BodyStart(m) ==
  /\ req.state = "idle"
  /\ req' = [req EXCEPT !.state = "streaming", !.mode = m, !.body = Header(RATE)]
  /\ UNCHANGED <<micOpen, chunks, speaking, silent, devErr, seg, net, cal, session>>
  /\ UNCHANGED procVars
  /\ UNCHANGED fsVars
  /\ UNCHANGED histVars
  /\ UNCHANGED pmVars

\* The generator asks the segmenter for its next chunk, having passed on all
\* it was given: the segmenter takes turns of its loop until it yields or ends.
BodyAsks == req.state = "streaming" /\ req.taken = Len(seg.yielded)

\* if stop_recording.is_set(): break
StopSeen == req.mode = "listen" /\ req.stop

\* The generator is given the next chunk the segmenter has yielded: it breaks
\* on the stop flag, or yields the chunk (a chunk that is yielded is never
\* empty and never an int, so no filter drops it).
BodyTake ==
  /\ req.state = "streaming"
  /\ req.taken < Len(seg.yielded)
  /\ req' = IF StopSeen
            THEN [req EXCEPT !.state = "closed"]
            ELSE [req EXCEPT !.taken = @ + 1,
                             !.body = @ \o ChunkBytes(seg.yielded[req.taken + 1])]
  /\ UNCHANGED <<micOpen, chunks, speaking, silent, devErr, seg, net, cal, session>>
  /\ UNCHANGED procVars
  /\ UNCHANGED fsVars
  /\ UNCHANGED histVars
  /\ UNCHANGED pmVars

\* The segmenter's generator is exhausted: the body is complete.
BodyEnds ==
  /\ BodyAsks
  /\ seg.ended
  /\ req' = [req EXCEPT !.state = "closed"]
  /\ UNCHANGED <<micOpen, chunks, speaking, silent, devErr, seg, net, cal, session>>
  /\ UNCHANGED procVars
  /\ UNCHANGED fsVars
  /\ UNCHANGED histVars
  /\ UNCHANGED pmVars

\* run_listen_command.signal_handler: stop_recording.set()
BodyStopSet ==
  /\ req.state = "streaming"
  /\ req.mode = "listen"
  /\ ~req.stop
  /\ req' = [req EXCEPT !.stop = TRUE]
  /\ UNCHANGED <<micOpen, chunks, speaking, silent, devErr, seg, net, cal, session>>
  /\ UNCHANGED procVars
  /\ UNCHANGED fsVars
  /\ UNCHANGED histVars
  /\ UNCHANGED pmVars

\* --------------------------- main.py: run_long_dictation_command, its requests
\* The ways a streaming request of the long session fails and the loop goes
\* on: requests.exceptions.RequestException other than ConnectionError (a
\* timeout, an HTTP error status), json.JSONDecodeError.
LongRecoverable == {"timeout", "badstatus", "badjson"}

\* session.post(...) fails with error o; the except clause logs it and
\* continues with the next utterance.
LongRequestFails(p, o) ==
  /\ Alive(p)
  /\ cmd[p] = "long"
  /\ pc[p] = "capture"
  /\ o \in LongRecoverable
  /\ net[p] # "retried"
  /\ net' = [net EXCEPT ![p] = "failed"]
  /\ UNCHANGED <<micOpen, chunks, speaking, silent, devErr, seg, req, cal, session>>
  /\ UNCHANGED procVars
  /\ UNCHANGED fsVars
  /\ UNCHANGED histVars
  /\ UNCHANGED pmVars

\* The next turn of while True: stream_audio_with_vad yields its sample rate
\* and session.post is called with the next body.
LongRequest(p) ==
  /\ Alive(p)
  /\ cmd[p] = "long"
  /\ pc[p] = "capture"
  /\ net[p] = "failed"
  /\ net' = [net EXCEPT ![p] = "retried"]
  /\ UNCHANGED <<micOpen, chunks, speaking, silent, devErr, seg, req, cal, session>>
  /\ UNCHANGED procVars
  /\ UNCHANGED fsVars
  /\ UNCHANGED histVars
  /\ UNCHANGED pmVars

\* ------------------------------------------------ record.py: calibrate_microphone
\* int(duration * RATE / CHUNK): the chunks one measurement reads.
chunks_to_read == 2

\* RMS volumes of a chunk: silence, a quiet room, a loud room, int16 full scale.
CalVolumes == {0, 60, 6000, 32767}

\* The bands (silence_threshold_min, silence_threshold_max) of the configuration.
Bands == {<<10, 40>>, <<10, 5000>>, <<50, 5000>>, <<50, 8000>>, <<6000, 8000>>}

\* silence_threshold_fallback of the configuration.
Fallbacks == {30, 500}

\* The literals of the return statement: max(50.0, min(threshold, 5000.0)).
CLAMP_LOW == 50
CLAMP_HIGH == 5000

Max2(a, b) == IF a >= b THEN a ELSE b
Min2(a, b) == IF a <= b THEN a ELSE b

RECURSIVE InsertSorted(_, _)
InsertSorted(x, s) ==
  IF s = <<>> THEN <<x>>
  ELSE IF x <= Head(s) THEN <<x>> \o s
  ELSE <<Head(s)>> \o InsertSorted(x, Tail(s))

RECURSIVE Sorted(_)
Sorted(s) == IF s = <<>> THEN <<>> ELSE InsertSorted(Head(s), Sorted(Tail(s)))

\* np.percentile(volumes_array, q), linear interpolation between the two
\* nearest ranks, in hundredths.
Percentile(s, q) ==
  LET sorted == Sorted(s)
      pos == q * (Len(s) - 1)
      lo == (pos \div 100) + 1
      hi == Min2(lo + 1, Len(s))
  IN sorted[lo] * 100 + (pos % 100) * (sorted[hi] - sorted[lo])

\* The value returned after a measurement: the 95th percentile brought into
\* the configured band, then into the band of the return statement.
Threshold(volumes, threshold_min, threshold_max) ==
  LET p95 == Percentile(volumes, 95)
      banded == Min2(Max2(p95, threshold_min * 100), threshold_max * 100)
  IN Max2(CLAMP_LOW * 100, Min2(banded, CLAMP_HIGH * 100))

CalUnchanged ==
  /\ UNCHANGED <<micOpen, chunks, speaking, silent, devErr, seg, req, net, session>>
  /\ UNCHANGED procVars
  /\ UNCHANGED fsVars
  /\ UNCHANGED histVars
  /\ UNCHANGED pmVars

\* calibrate_microphone is called; load_app_config gives the band and the
\* fallback.
CalStart(band, fb) ==
  /\ cal.state = "idle"
  /\ cal' = [cal EXCEPT !.state = "finding", !.threshold_min = band[1],
                        !.threshold_max = band[2], !.fallback = fb]
  /\ CalUnchanged

\* find_microphone() returns None: the fallback is returned.
CalNoDevice ==
  /\ cal.state = "finding"
  /\ cal' = [cal EXCEPT !.state = "returned", !.dev = "nodevice",
                        !.result = cal.fallback * 100]
  /\ CalUnchanged

\* p.open(...): the stream opens, or the except clause returns the fallback.
CalOpens(ok) ==
  /\ cal.state = "finding"
  /\ cal' = IF ok THEN [cal EXCEPT !.state = "measuring"]
            ELSE [cal EXCEPT !.state = "returned", !.dev = "openfail",
                             !.result = cal.fallback * 100]
  /\ CalUnchanged

\* One turn of the for loop: stream.read gives a chunk of volume v.
CalRead(v) ==
  /\ cal.state = "measuring"
  /\ Len(cal.volumes) < chunks_to_read
  /\ cal' = [cal EXCEPT !.volumes = Append(@, v)]
  /\ CalUnchanged

\* stream.read raises; the try has a finally clause and no except clause, so
\* the stream is closed and the exception leaves calibrate_microphone.
CalReadFails ==
  /\ cal.state = "measuring"
  /\ Len(cal.volumes) < chunks_to_read
  /\ cal' = [cal EXCEPT !.state = "raised", !.dev = "readfail"]
  /\ CalUnchanged

\* The loop is over: the fallback when nothing was measured, else the
\* threshold computed from the volumes.
CalReturns ==
  /\ cal.state = "measuring"
  /\ Len(cal.volumes) = chunks_to_read
  /\ cal' = [cal EXCEPT !.state = "returned",
               !.result = IF cal.volumes = <<>> THEN cal.fallback * 100
                          ELSE Threshold(cal.volumes, cal.threshold_min, cal.threshold_max)]
  /\ CalUnchanged

\* ------------------------------- long_dictation.py: DictationSession and auto-save
\* The segments one session takes, and the words of a segment.
MaxSegments == 3
WordCounts == {1, 2}

DictUnchanged ==
  /\ UNCHANGED <<micOpen, chunks, speaking, silent, devErr, seg, req, net, cal>>
  /\ UNCHANGED procVars
  /\ UNCHANGED fsVars
  /\ UNCHANGED histVars
  /\ UNCHANGED pmVars

\* add_text, first statement: self.transcript.append(text), text of w words.
AddTextAppend(w) ==
  /\ session.adding = 0
  /\ Len(session.transcript) < MaxSegments
  /\ session' = [session EXCEPT !.transcript = Append(@, w), !.adding = w]
  /\ DictUnchanged

\* add_text, second statement: self.word_count += len(text.split()).
AddTextCount ==
  /\ session.adding > 0
  /\ session' = [session EXCEPT !.word_count = @ + session.adding, !.adding = 0]
  /\ DictUnchanged

\* _auto_save_worker wakes and _save_transcript writes get_full_text().
SaveText ==
  /\ ~session.saving
  /\ session' = [session EXCEPT !.saving = TRUE]
  /\ DictUnchanged

\* _save_transcript calls get_stats(), which reads word_count and
\* len(transcript), and writes the session file.
SaveStats ==
  /\ session.saving
  /\ session' = [session EXCEPT !.saving = FALSE,
                                !.snap_word_count = session.word_count,
                                !.snap_segments = Len(session.transcript),
                                !.snapshots = 1]
  /\ DictUnchanged

\* run_long_dictation_command, the clauses of its try statement: where an
\* exception raised inside the loop is taken. KeyboardInterrupt goes to the
\* stop sequence (session.close, join the transcript, clipboard, report,
\* cleanup_pid, return 0); an Exception to the error report; anything else
\* (SystemExit from exit(0)) to the finally clause alone.
LongExceptClause(exc) ==
  CASE exc = "KeyboardInterrupt" -> "ld_stop"
    [] exc = "Exception" -> "ld_error"
    [] OTHER -> "finish"

\* ------------------------------------------------------------ initial state
\* No capture session has begun; the stream_audio_with_vad call followed
\* chunk by chunk has the arguments of the bounds and has read nothing.
InitSess ==
  /\ micOpen = [p \in Procs |-> FALSE]
  /\ chunks = [p \in Procs |-> 0]
  /\ speaking = [p \in Procs |-> FALSE]
  /\ silent = [p \in Procs |-> 0]
  /\ devErr = [p \in Procs |-> "none"]
  /\ net = [p \in Procs |-> "none"]
  /\ cal = [state |-> "idle", threshold_min |-> 0, threshold_max |-> 0, fallback |-> 0,
            volumes |-> <<>>, dev |-> "ok", result |-> 0]
  /\ session = [transcript |-> <<>>, word_count |-> 0, adding |-> 0,
                saving |-> FALSE, snap_segments |-> 0, snap_word_count |-> 0,
                snapshots |-> 0]
  /\ req = [state |-> "idle", mode |-> "listen", body |-> <<>>, taken |-> 0, stop |-> FALSE]
  /\ seg = [read |-> <<>>, yielded |-> <<>>, pre_speech_buffer |-> <<>>,
            volume_history |-> <<>>, is_speaking |-> FALSE, silent_chunks_count |-> 0,
            total_chunks_processed |-> 0, speech_has_started_and_padded |-> FALSE,
            ended |-> FALSE, why |-> "none", attempts |-> 0, call |-> "default",
            silence_threshold |-> silence_threshold, max_duration |-> "number",
            unlimited |-> FALSE, max_total_chunks |-> max_total_chunks]

Init == InitFs /\ InitProcs /\ InitHist /\ InitPm /\ InitSess

\* --------------------------------------------- ProcessManager.toggle and its caller
\* Iterations of stop_process's wait loop before its timeout has elapsed
\* (timeout / 0.1 s in the code).
GracePolls == 2

\* A process calls ProcessManager(name).toggle().
InvokeToggle(p, c) ==
  /\ p = FreeSlot
  /\ c \in {"toggle", "toggle-ld"}
  /\ Cardinality({q \in Procs : cmd[q] # "none"}) < MaxInvocations
  /\ cmd' = [cmd EXCEPT ![p] = c]
  /\ pc' = [pc EXCEPT ![p] = "t_acquire"]
  /\ site' = [site EXCEPT ![p] = "toggle"]
  /\ UNCHANGED <<rd, fd, st, stopFlag, handlers, pend>>
  /\ UNCHANGED fsVars
  /\ UNCHANGED histVars
  /\ UNCHANGED pmVars
  /\ UNCHANGED sessVars

\* Attempts acquire_lock makes before its timeout has elapsed
\* (timeout / 0.01 s in the code).
LockTries == 2

\* Mutant of FlockGranted: the lock is granted whoever holds it.
FlockAlwaysGranted(n) == TRUE

\* fcntl.flock(fd, LOCK_EX | LOCK_NB) on the lock file of name n succeeds: no
\* other open file holds the lock.
FlockGranted(n) == lockHolder[n] = 0

\* acquire_lock: an attempt made before the timeout succeeds; return True.
AcquireLock(p) ==
  /\ pc[p] = "t_acquire"
  /\ pm[p].tries < LockTries
  /\ FlockGranted(NameOf(cmd[p]))
  /\ lockHolder' = [lockHolder EXCEPT ![NameOf(cmd[p])] = p]
  /\ pc' = [pc EXCEPT ![p] = "ir_exists"]
  /\ UNCHANGED <<cmd, site, rd, fd, st, stopFlag, handlers, pend, pm>>
  /\ UNCHANGED fsVars
  /\ UNCHANGED histVars
  /\ UNCHANGED sessVars

\* acquire_lock: flock raises OSError (the lock is taken); time.sleep(0.01)
\* and the loop goes round.
AcquireRetry(p) ==
  /\ pc[p] = "t_acquire"
  /\ pm[p].tries < LockTries
  /\ ~FlockGranted(NameOf(cmd[p]))
  /\ pm' = [pm EXCEPT ![p].tries = @ + 1]
  /\ UNCHANGED <<cmd, pc, site, rd, fd, st, stopFlag, handlers, pend, lockHolder>>
  /\ UNCHANGED fsVars
  /\ UNCHANGED histVars
  /\ UNCHANGED sessVars

\* Mutant of AcquireTimeout: the result of acquire_lock is not looked at (as
\* in __enter__), and toggle goes on without the lock.
AcquireTimeoutIgnored(p) ==
  /\ pc[p] = "t_acquire"
  /\ pm[p].tries >= LockTries
  /\ pc' = [pc EXCEPT ![p] = "ir_exists"]
  /\ UNCHANGED <<cmd, site, rd, fd, st, stopFlag, handlers, pend>>
  /\ UNCHANGED fsVars
  /\ UNCHANGED histVars
  /\ UNCHANGED pmVars
  /\ UNCHANGED sessVars

\* acquire_lock: the timeout has elapsed with every attempt refused; return
\* False, and toggle returns (False, "Another operation is in progress").
AcquireTimeout(p) ==
  /\ pc[p] = "t_acquire"
  /\ pm[p].tries >= LockTries
  /\ pm' = [pm EXCEPT ![p].verdict = "busy"]
  /\ pc' = [pc EXCEPT ![p] = "t_ret"]
  /\ UNCHANGED <<cmd, site, rd, fd, st, stopFlag, handlers, pend, lockHolder>>
  /\ UNCHANGED fsVars
  /\ UNCHANGED histVars
  /\ UNCHANGED sessVars

\* is_running() returns `run` to its caller:
\*   toggle (line 240): running -> stop_process(), which begins with
\*     is_running() again; not running -> (True, "... starting new one")
\*   stop_process (line 155): not running -> return True, so toggle returns
\*     (False, "Stopped ..."); running -> os.kill(pid, SIGINT)
IsRunningReturns(p, run, f) ==
  LET gone == pidPath'[NameOf(cmd[p])] = <<>>
      chg == pidPath' # pidPath
      r == IF run THEN "yes" ELSE "no"
  IN IF site[p] = "toggle"
     THEN /\ pm' = [pm EXCEPT ![p] = [@ EXCEPT !.found = f, !.res = r, !.gone = gone, !.changed = chg,
                                               !.running = r,
                                               !.verdict = IF run THEN @ ELSE "start"]]
          /\ pc' = [pc EXCEPT ![p] = IF run THEN "ir_exists" ELSE "t_release"]
          /\ site' = [site EXCEPT ![p] = IF run THEN "stopproc" ELSE "toggle"]
     ELSE /\ pm' = [pm EXCEPT ![p] = [@ EXCEPT !.found = f, !.res = r, !.gone = gone, !.changed = chg,
                                               !.verdict = IF run THEN @ ELSE "stopped"]]
          /\ pc' = [pc EXCEPT ![p] = IF run THEN "sp_int" ELSE "t_release"]
          /\ UNCHANGED site

\* is_running: if not self.pid_file.exists(): return False, None
IsRunningExists(p) ==
  /\ pc[p] = "ir_exists"
  /\ IF pidPath[NameOf(cmd[p])] = <<>>
     THEN /\ UNCHANGED pidPath
          /\ IsRunningReturns(p, FALSE, "absent")
     ELSE /\ pc' = [pc EXCEPT ![p] = "ir_read"]
          /\ pm' = [pm EXCEPT ![p] = [@ EXCEPT !.found = "none", !.res = "none",
                                               !.gone = FALSE, !.changed = FALSE]]
          /\ UNCHANGED <<site, pidPath>>
  /\ UNCHANGED <<cmd, rd, fd, st, stopFlag, handlers, pend, lockHolder, tmpPath, data>>
  /\ UNCHANGED histVars
  /\ UNCHANGED sessVars

\* is_running: pid = int(f.read().strip()); OSError and ValueError go to the
\* outer except clause, which cleans up.
IsRunningRead(p) ==
  /\ pc[p] = "ir_read"
  /\ LET n == NameOf(cmd[p])
         text == IF pidPath[n] = <<>> THEN <<>> ELSE data[pidPath[n][1]]
         pid == IF pidPath[n] = <<>> THEN 0 ELSE ParsePid(text)
     IN /\ pc' = [pc EXCEPT ![p] = IF pid = 0 THEN "ir_cleanup" ELSE "ir_probe"]
        /\ rd' = [rd EXCEPT ![p] = pid]
        /\ pm' = [pm EXCEPT ![p].found = IF pidPath[n] = <<>> THEN "vanished"
                                         ELSE IF pid = 0 THEN "garbage" ELSE "none"]
        /\ sawPartial' = (sawPartial \/ (pidPath[n] # <<>> /\ text = <<>>))
  /\ UNCHANGED <<cmd, site, fd, st, stopFlag, handlers, pend, lockHolder>>
  /\ UNCHANGED <<foreignSigs, stopPending>>
  /\ UNCHANGED fsVars
  /\ UNCHANGED sessVars

\* is_running: os.kill(pid, 0); ProcessLookupError -> cleanup
IsRunningProbe(p) ==
  /\ pc[p] = "ir_probe"
  /\ pc' = [pc EXCEPT ![p] = IF PidAlive(rd[p]) THEN "ir_cmdline" ELSE "ir_cleanup"]
  /\ pm' = [pm EXCEPT ![p].found = IF PidAlive(rd[p]) THEN "none" ELSE "dead"]
  /\ UNCHANGED <<cmd, site, rd, fd, st, stopFlag, handlers, pend, lockHolder>>
  /\ UNCHANGED fsVars
  /\ UNCHANGED histVars
  /\ UNCHANGED sessVars

\* The verdict of the identity check: "talkat" in /proc/<pid>/cmdline.
CmdlineIsOurs(pid) == IsTalkat(pid)

\* is_running: read /proc/<pid>/cmdline; ours -> return True, pid; else the
\* PID file is treated as stale.
IsRunningCmdline(p) ==
  /\ pc[p] = "ir_cmdline"
  /\ IF CmdlineIsOurs(rd[p])
     THEN /\ UNCHANGED pidPath
          /\ IsRunningReturns(p, TRUE, "live")
     ELSE /\ pc' = [pc EXCEPT ![p] = "ir_cleanup"]
          /\ pm' = [pm EXCEPT ![p].found = IF PidAlive(rd[p]) THEN "foreign" ELSE "dead"]
          /\ UNCHANGED <<site, pidPath>>
  /\ UNCHANGED <<cmd, rd, fd, st, stopFlag, handlers, pend, lockHolder, tmpPath, data>>
  /\ UNCHANGED histVars
  /\ UNCHANGED sessVars

\* Mutant of StaleCleanup: content that is not a PID is left in place.
StaleCleanupKeepsGarbage(f, path) == IF f = "garbage" THEN path ELSE Unlink(path)

\* What cleanup_pid_file leaves at the PID path when is_running found the
\* file stale for reason f.
StaleCleanup(f, path) == Unlink(path)

\* is_running: self.cleanup_pid_file(); return False, None
IsRunningCleanup(p) ==
  /\ pc[p] = "ir_cleanup"
  /\ pidPath' = [pidPath EXCEPT ![NameOf(cmd[p])] = StaleCleanup(pm[p].found, @)]
  /\ IsRunningReturns(p, FALSE, pm[p].found)
  /\ UNCHANGED <<cmd, rd, fd, st, stopFlag, handlers, pend, lockHolder, tmpPath>>
  /\ UNCHANGED histVars
  /\ data' = Freed(data, pidPath', tmpPath', fd')
  /\ UNCHANGED sessVars

\* pm[p] with the signal appended to the log of signals stop_process has sent.
Logged(p, sig) == [pm[p] EXCEPT !.sigLog = Append(@, sig)]

\* stop_process returns False from its "except Exception" clause (os.kill
\* raised ProcessLookupError); toggle returns (True, "Failed to stop ...").
StopFails(p) ==
  /\ pm' = [pm EXCEPT ![p].verdict = "failed"]
  /\ pc' = [pc EXCEPT ![p] = "t_release"]

\* The signal stop_process sends first.
FirstSignal == "INT"

\* stop_process: os.kill(pid, signal.SIGINT)
StopSigint(p) ==
  /\ pc[p] = "sp_int"
  /\ IF PidAlive(rd[p])
     THEN /\ SendSignal(rd[p], FirstSignal)
          /\ pm' = [pm EXCEPT ![p] = Logged(p, FirstSignal)]
          /\ pc' = [pc EXCEPT ![p] = "sp_poll"]
     ELSE /\ StopFails(p)
          /\ UNCHANGED <<pend, foreignSigs>>
  /\ UNCHANGED <<cmd, site, rd, fd, st, stopFlag, handlers, lockHolder>>
  /\ UNCHANGED <<sawPartial, stopPending>>
  /\ UNCHANGED fsVars
  /\ UNCHANGED sessVars

\* Where the wait loop goes when a liveness check finds the target gone.
PcWhenGone == "sp_cleanup"

\* stop_process, wait loop: os.kill(pid, 0); time.sleep(0.1). The loop ends
\* when the timeout has elapsed (GracePolls iterations).
StopPoll(p) ==
  /\ pc[p] = "sp_poll"
  /\ IF PidAlive(rd[p])
     THEN /\ pm' = [pm EXCEPT ![p].polls = @ + 1]
          /\ pc' = [pc EXCEPT ![p] = IF pm[p].polls + 1 >= GracePolls THEN "sp_term" ELSE "sp_poll"]
     ELSE /\ pm' = [pm EXCEPT ![p].seenDead = TRUE]
          /\ pc' = [pc EXCEPT ![p] = PcWhenGone]
  /\ UNCHANGED <<cmd, site, rd, fd, st, stopFlag, handlers, pend, lockHolder>>
  /\ UNCHANGED fsVars
  /\ UNCHANGED histVars
  /\ UNCHANGED sessVars

\* SIGTERM has its default action (the process is terminated at once) unless
\* the target has installed a handler for it: run_long_dictation_command does
\* (setup_signal_handlers), run_listen_command handles SIGINT only.
TermIsLethal(t) == ~(cmd[t] = "long" /\ handlers[t])

\* Process t is terminated by a signal sent by p, which goes on to newpc.
DieBySignal(p, t, status, newpc, newpm) ==
  /\ pc' = [pc EXCEPT ![p] = newpc, ![t] = "done"]
  /\ pm' = [pm EXCEPT ![p] = newpm, ![t] = PmInit]
  /\ st' = [st EXCEPT ![t] = status]
  /\ site' = [site EXCEPT ![t] = "main"]
  /\ rd' = [rd EXCEPT ![t] = 0]
  /\ fd' = [fd EXCEPT ![t] = <<>>]
  /\ stopFlag' = [stopFlag EXCEPT ![t] = FALSE]
  /\ handlers' = [handlers EXCEPT ![t] = FALSE]
  /\ pend' = [pend EXCEPT ![t] = {}]
  /\ data' = Freed(data, pidPath, tmpPath, fd')

\* The process with PID pid (a live talkat process).
ProcOf(pid) == CHOOSE q \in Procs : PidOf(q) = pid

\* Mutant of SecondSignal: the escalation skips SIGTERM.
SecondSignalIsKill == "KILL"

\* The signal stop_process escalates to after the wait loop.
SecondSignal == "TERM"

\* stop_process: os.kill(pid, signal.SIGTERM); time.sleep(1)
StopSigterm(p) ==
  /\ pc[p] = "sp_term"
  /\ IF ~PidAlive(rd[p])
     THEN /\ StopFails(p)
          /\ UNCHANGED <<st, site, rd, fd, stopFlag, handlers, pend, data>>
     ELSE IF SecondSignal = "TERM" /\ TermIsLethal(ProcOf(rd[p]))
          THEN DieBySignal(p, ProcOf(rd[p]), 143, "sp_final", Logged(p, SecondSignal))
          ELSE IF SecondSignal = "KILL"
          THEN DieBySignal(p, ProcOf(rd[p]), 137, "sp_final", Logged(p, SecondSignal))
          ELSE /\ pend' = [pend EXCEPT ![ProcOf(rd[p])] = @ \cup {SecondSignal}]
               /\ pm' = [pm EXCEPT ![p] = Logged(p, SecondSignal)]
               /\ pc' = [pc EXCEPT ![p] = "sp_final"]
               /\ UNCHANGED <<st, site, rd, fd, stopFlag, handlers, data>>
  /\ UNCHANGED <<cmd, lockHolder, pidPath, tmpPath>>
  /\ UNCHANGED histVars
  /\ UNCHANGED sessVars

\* stop_process, final check: os.kill(pid, 0)
StopFinalCheck(p) ==
  /\ pc[p] = "sp_final"
  /\ IF PidAlive(rd[p])
     THEN /\ pm' = [pm EXCEPT ![p].finalAlive = TRUE]
          /\ pc' = [pc EXCEPT ![p] = "sp_kill"]
     ELSE /\ pm' = [pm EXCEPT ![p].seenDead = TRUE]
          /\ pc' = [pc EXCEPT ![p] = PcWhenGone]
  /\ UNCHANGED <<cmd, site, rd, fd, st, stopFlag, handlers, pend, lockHolder>>
  /\ UNCHANGED fsVars
  /\ UNCHANGED histVars
  /\ UNCHANGED sessVars

\* Mutant of StopSigkill: the forceful kill is left out.
StopSigkillSkipped(p) ==
  /\ pc[p] = "sp_kill"
  /\ pc' = [pc EXCEPT ![p] = "sp_cleanup"]
  /\ UNCHANGED <<cmd, site, rd, fd, st, stopFlag, handlers, pend>>
  /\ UNCHANGED fsVars
  /\ UNCHANGED histVars
  /\ UNCHANGED pmVars
  /\ UNCHANGED sessVars

\* stop_process: os.kill(pid, signal.SIGKILL); time.sleep(0.5). A
\* ProcessLookupError here is passed over.
StopSigkill(p) ==
  /\ pc[p] = "sp_kill"
  /\ IF PidAlive(rd[p])
     THEN DieBySignal(p, ProcOf(rd[p]), 137, "sp_cleanup", Logged(p, "KILL"))
     ELSE /\ pc' = [pc EXCEPT ![p] = "sp_cleanup"]
          /\ UNCHANGED <<pm, st, site, rd, fd, stopFlag, handlers, pend, data>>
  /\ UNCHANGED <<cmd, lockHolder, pidPath, tmpPath>>
  /\ UNCHANGED histVars
  /\ UNCHANGED sessVars

\* stop_process: self.cleanup_pid_file(); return True, so toggle returns
\* (False, "Stopped ...").
StopCleanup(p) ==
  /\ pc[p] = "sp_cleanup"
  /\ pidPath' = [pidPath EXCEPT ![NameOf(cmd[p])] = Unlink(@)]
  /\ pm' = [pm EXCEPT ![p].verdict = "stopped"]
  /\ pc' = [pc EXCEPT ![p] = "t_release"]
  /\ UNCHANGED <<cmd, site, rd, fd, st, stopFlag, handlers, pend, lockHolder, tmpPath>>
  /\ UNCHANGED histVars
  /\ data' = Freed(data, pidPath', tmpPath', fd')
  /\ UNCHANGED sessVars

\* Mutant of ToggleRelease: toggle returns without the finally clause.
ToggleReleaseSkipped(p) ==
  /\ pc[p] = "t_release"
  /\ pc' = [pc EXCEPT ![p] = "t_ret"]
  /\ UNCHANGED <<cmd, site, rd, fd, st, stopFlag, handlers, pend, pm, lockHolder>>
  /\ UNCHANGED fsVars
  /\ UNCHANGED histVars
  /\ UNCHANGED sessVars

\* toggle, finally clause: release_lock(); toggle returns its verdict.
ToggleRelease(p) ==
  /\ pc[p] = "t_release"
  /\ lockHolder' = [lockHolder EXCEPT ![NameOf(cmd[p])] = 0]
  /\ pc' = [pc EXCEPT ![p] = "t_ret"]
  /\ UNCHANGED <<cmd, site, rd, fd, st, stopFlag, handlers, pend, pm>>
  /\ UNCHANGED fsVars
  /\ UNCHANGED histVars
  /\ UNCHANGED sessVars

\* The caller of toggle(): told to start a new process, it runs the capture
\* command of the name (run_listen_command or run_long_dictation_command,
\* which begin with pm.write_pid(os.getpid())); otherwise it is done.
CallerActs(p) ==
  /\ pc[p] = "t_ret"
  /\ IF pm[p].verdict = "start"
     THEN /\ cmd' = [cmd EXCEPT ![p] = IF NameOf(cmd[p]) = "listen" THEN "listen" ELSE "long"]
          /\ pc' = [pc EXCEPT ![p] = "wp_open"]
          /\ UNCHANGED <<site, rd, fd, st, stopFlag, handlers, pm>>
     ELSE /\ Exit(p, 0)
          /\ UNCHANGED cmd
  /\ UNCHANGED <<pend, lockHolder>>
  /\ UNCHANGED fsVars
  /\ UNCHANGED histVars
  /\ UNCHANGED sessVars

\* SIGTERM reaches a process that handles it
\* (setup_signal_handlers.signal_handler): cleanup_func(); exit(0).
HandleSigterm(p) ==
  /\ Alive(p)
  /\ "TERM" \in pend[p]
  /\ cmd[p] = "long"
  /\ pend' = [pend EXCEPT ![p] = @ \ {"TERM"}]
  /\ pidPath' = [pidPath EXCEPT ![NameOf(cmd[p])] = Unlink(@)]
  /\ pc' = [pc EXCEPT ![p] = "finish"]
  /\ st' = [st EXCEPT ![p] = 0]
  /\ UNCHANGED <<cmd, site, rd, fd, stopFlag, handlers, tmpPath>>
  /\ UNCHANGED histVars
  /\ UNCHANGED pmVars
  /\ data' = Freed(data, pidPath', tmpPath', fd')
  /\ UNCHANGED sessVars

\* ------------------------------------------------------------ specification
Commands == {"listen", "start-long", "toggle-long"}

Next ==
  \/ \E p \in Procs, c \in Commands : Invoke(p, c)
  \/ \E p \in Procs : GetPidExists(p)
  \/ \E p \in Procs : GetPidRead(p)
  \/ \E p \in Procs : GetPidProbe(p)
  \/ \E p \in Procs : GetPidUnlink(p)
  \/ \E p \in Procs : StopKill(p)
  \/ \E p \in Procs : StopUnlink(p)
  \/ \E p \in Procs : StartLongPopen(p)
  \/ \E p \in Procs : StartLongOpen(p)
  \/ \E p \in Procs : StartLongWrite(p)
  \/ \E p \in Procs : WritePidOpen(p)
  \/ \E p \in Procs : WritePidWrite(p)
  \/ \E p \in Procs : WritePidRename(p)
  \/ \E p \in Procs : InstallHandlers(p)
  \/ \E p \in Procs, o \in {"ok", "nospeech", "neterr", "exc"} : CaptureEnds(p, o)
  \/ \E p \in Procs : Finish(p)
  \/ \E p \in Procs : HandleSigint(p)

Spec == Init /\ [][Next]_vars

\* The processes are the callers of ProcessManager.toggle() and the capture
\* processes they start.
NextPM ==
  \/ \E p \in Procs, c \in {"toggle", "toggle-ld"} : InvokeToggle(p, c)
  \/ \E p \in Procs : AcquireLock(p)
  \/ \E p \in Procs : AcquireRetry(p)
  \/ \E p \in Procs : AcquireTimeout(p)
  \/ \E p \in Procs : IsRunningExists(p)
  \/ \E p \in Procs : IsRunningRead(p)
  \/ \E p \in Procs : IsRunningProbe(p)
  \/ \E p \in Procs : IsRunningCmdline(p)
  \/ \E p \in Procs : IsRunningCleanup(p)
  \/ \E p \in Procs : StopSigint(p)
  \/ \E p \in Procs : StopPoll(p)
  \/ \E p \in Procs : StopSigterm(p)
  \/ \E p \in Procs : StopFinalCheck(p)
  \/ \E p \in Procs : StopSigkill(p)
  \/ \E p \in Procs : StopCleanup(p)
  \/ \E p \in Procs : ToggleRelease(p)
  \/ \E p \in Procs : CallerActs(p)
  \/ \E p \in Procs : WritePidOpen(p)
  \/ \E p \in Procs : WritePidWrite(p)
  \/ \E p \in Procs : WritePidRename(p)
  \/ \E p \in Procs : InstallHandlers(p)
  \/ \E p \in Procs, o \in {"ok", "nospeech", "neterr", "exc"} : CaptureEnds(p, o)
  \/ \E p \in Procs : Finish(p)
  \/ \E p \in Procs : HandleSigint(p)
  \/ \E p \in Procs : HandleSigterm(p)

SpecPM == Init /\ [][NextPM]_vars

\* The slots of the callers of toggle(): they spawn no children, so the
\* invocations fill the first slots.
Callers == 1..MaxInvocations

\* The steps of process p inside toggle(): a running process keeps being
\* scheduled, and every wait of toggle and stop_process is bounded by a timeout.
ToggleStep(p) ==
  \/ AcquireLock(p) \/ AcquireRetry(p) \/ AcquireTimeout(p)
  \/ IsRunningExists(p) \/ IsRunningRead(p) \/ IsRunningProbe(p)
  \/ IsRunningCmdline(p) \/ IsRunningCleanup(p)
  \/ StopSigint(p) \/ StopPoll(p) \/ StopSigterm(p) \/ StopFinalCheck(p)
  \/ StopSigkill(p) \/ StopCleanup(p) \/ ToggleRelease(p)

\* SpecPM with the callers of toggle() scheduled fairly. Nothing is assumed of
\* the target: it may never get to handle a signal.
FairSpecPM == Init /\ [][NextPM]_vars /\ \A p \in Callers : WF_vars(ToggleStep(p))

\* `talkat listen` is run when no talkat process exists.
ListenInvoke(p) ==
  /\ \A q \in Procs : cmd[q] = "none"
  /\ Invoke(p, "listen")

\* One `talkat listen` invocation, its session taken step by step, and the
\* SIGINT that other invocations send to it.
NextListen ==
  \/ \E p \in Procs : ListenInvoke(p)
  \/ \E p \in Procs : GetPidExists(p)
  \/ \E p \in Procs : GetPidRead(p)
  \/ \E p \in Procs : GetPidProbe(p)
  \/ \E p \in Procs : GetPidUnlink(p)
  \/ \E p \in Procs : StopKill(p)
  \/ \E p \in Procs : StopUnlink(p)
  \/ \E p \in Procs : WritePidOpen(p)
  \/ \E p \in Procs : WritePidWrite(p)
  \/ \E p \in Procs : WritePidRename(p)
  \/ \E p \in Procs : InstallHandlers(p)
  \/ \E p \in Procs, ok \in BOOLEAN : MicOpens(p, ok)
  \/ \E p \in Procs, ok \in BOOLEAN : PostConnects(p, ok)
  \/ \E p \in Procs, loud \in BOOLEAN : ReadChunk(p, loud)
  \/ \E p \in Procs : GeneratorEnds(p)
  \/ \E p \in Procs : ReadFails(p)
  \/ \E p \in Procs, o \in {"ok", "neterr", "exc"} : BackendResponds(p, o)
  \/ \E p \in Procs : Finish(p)
  \/ \E p \in Procs : SigintArrives(p)
  \/ \E p \in Procs : HandleSigint(p)

SpecListen == Init /\ [][NextListen]_vars

\* The steps of the session of listen process p: the process keeps running,
\* the device delivers or fails each read, and the request is answered or
\* times out.
SessionStep(p) ==
  \/ \E ok \in BOOLEAN : MicOpens(p, ok)
  \/ \E ok \in BOOLEAN : PostConnects(p, ok)
  \/ \E loud \in BOOLEAN : ReadChunk(p, loud)
  \/ GeneratorEnds(p)
  \/ ReadFails(p)
  \/ \E o \in {"ok", "neterr", "exc"} : BackendResponds(p, o)
  \/ Finish(p)

FairSpecListen == Init /\ [][NextListen]_vars /\ \A p \in Procs : WF_vars(SessionStep(p))

\* `talkat listen` is run (by a user or a key binding).
InvokeListen(p) ==
  /\ Cardinality({q \in Procs : cmd[q] # "none"}) < MaxInvocations
  /\ Invoke(p, "listen")

\* Capture processes of both names (`talkat listen`, `talkat long`) and the
\* signals that reach them: SIGINT from a second `talkat listen`, SIGHUP from
\* a closing terminal.
NextSignals ==
  \/ \E p \in Procs : InvokeListen(p)
  \/ \E p \in Procs : InvokeLong(p)
  \/ \E p \in Procs : GetPidExists(p)
  \/ \E p \in Procs : GetPidRead(p)
  \/ \E p \in Procs : GetPidProbe(p)
  \/ \E p \in Procs : GetPidUnlink(p)
  \/ \E p \in Procs : StopKill(p)
  \/ \E p \in Procs : StopUnlink(p)
  \/ \E p \in Procs : WritePidOpen(p)
  \/ \E p \in Procs : WritePidWrite(p)
  \/ \E p \in Procs : WritePidRename(p)
  \/ \E p \in Procs : InstallHandlers(p)
  \/ \E p \in Procs, o \in {"ok", "nospeech", "neterr", "exc"} : CaptureEnds(p, o)
  \/ \E p \in Procs : Finish(p)
  \/ \E p \in Procs : HandleSigint(p)
  \/ \E p \in Procs : Sighup(p)

SpecSignals == Init /\ [][NextSignals]_vars

\* Mutant of LockAfterExit: the lock of a dead holder stays taken (a lock kept
\* as a file's existence rather than as a flock on an open descriptor).
LockAfterExitKept(p) == lockHolder

\* The locks once process p is gone: acquire_lock holds the lock as a flock on
\* a descriptor of the process, and the kernel closes it with the process.
LockAfterExit(p) == [n \in Names |-> IF lockHolder[n] = p THEN 0 ELSE lockHolder[n]]

\* A process is killed where it stands (SIGKILL from outside, out of memory):
\* an invocation holding a name's lock, or a capture process. Nothing it would
\* have cleaned up is cleaned up.
Crash(p) ==
  /\ Alive(p)
  /\ \/ \E n \in Names : lockHolder[n] = p
     \/ cmd[p] \in {"listen", "long"}
  /\ Exit(p, 137)
  /\ pend' = [pend EXCEPT ![p] = {}]
  /\ lockHolder' = LockAfterExit(p)
  /\ data' = Freed(data, pidPath, tmpPath, fd')
  /\ UNCHANGED <<cmd, pidPath, tmpPath>>
  /\ UNCHANGED histVars
  /\ UNCHANGED sessVars

\* The callers of toggle() and the capture processes they start, any of which
\* may be killed at any point.
NextCrash ==
  \/ NextPM
  \/ \E p \in Procs : Crash(p)

SpecCrash == Init /\ [][NextCrash]_vars

\* One call of stream_audio_with_vad on every sequence of chunk volumes.
NextSeg ==
  \/ \E v \in Volumes : SegRead(v)
  \/ SegReadEmpty
  \/ \E e \in BOOLEAN : SegEnds(e)

SpecSeg == Init /\ [][NextSeg]_vars

\* One call of stream_audio_with_vad with any arguments, on every behaviour
\* of the input device: chunks of any volume, reads of no samples, input
\* overflows, other read errors.
NextStream ==
  \/ \E t \in {0, silence_threshold}, md \in {"None", "number"}, cf \in {"None", "config"} :
       SegCall(t, md, cf)
  \/ \E v \in Volumes : SegRead(v)
  \/ SegReadEmpty
  \/ SegOverflow
  \/ \E e \in BOOLEAN : SegEnds(e)

SpecStream == Init /\ [][NextStream]_vars

\* One streaming request: the generator that makes its body and the
\* segmenter it draws from, which runs only when asked.
NextBody ==
  \/ \E m \in Modes : BodyStart(m)
  \/ \E v \in Volumes : BodyAsks /\ SegRead(v)
  \/ BodyAsks /\ SegReadEmpty
  \/ \E e \in BOOLEAN : BodyAsks /\ SegEnds(e)
  \/ BodyTake
  \/ BodyEnds
  \/ BodyStopSet

SpecBody == Init /\ [][NextBody]_vars

\* The capture processes of SpecSignals, with the requests of the long
\* session that fail and are followed by others.
NextLong ==
  \/ NextSignals
  \/ \E p \in Procs, o \in LongRecoverable : LongRequestFails(p, o)
  \/ \E p \in Procs : LongRequest(p)

SpecLong == Init /\ [][NextLong]_vars

\* One calibrate_microphone call, for every band, fallback, device outcome and
\* sequence of volumes of the bounds.
NextCal ==
  \/ \E band \in Bands, fb \in Fallbacks : CalStart(band, fb)
  \/ CalNoDevice
  \/ \E ok \in BOOLEAN : CalOpens(ok)
  \/ \E v \in CalVolumes : CalRead(v)
  \/ CalReadFails
  \/ CalReturns

SpecCal == Init /\ [][NextCal]_vars

\* The main loop of EnhancedLongDictation adding text while the auto-save
\* thread saves, statement by statement.
NextDict ==
  \/ \E w \in WordCounts : AddTextAppend(w)
  \/ AddTextCount
  \/ SaveText
  \/ SaveStats

SpecDict == Init /\ [][NextDict]_vars

\* --------------------------------------------------------------- properties
\* The processes that are in a capture session registered under name n.
Sessions(n) ==
  {p \in Procs : Alive(p) /\ cmd[p] \in {"listen", "long"} /\ NameOf(cmd[p]) = n
                 /\ pc[p] = "capture"}

\* C1: for each logical name, under every interleaving of CLI invocations
\* (listen, start-long, toggle-long), at most one live process at a time is in
\* a capture session registered under that name.
C1_AtMostOneSession == \A n \in Names : Cardinality(Sessions(n)) <= 1

\* C5: a running-check that reads the PID of a live process that is not a
\* talkat process reports not running (it never returns that PID to a
\* stop/toggle decision), and no signal is ever sent to that PID.
C5_ForeignPidIsStale ==
  /\ foreignSigs = {}
  /\ \A p \in Procs : rd[p] = ForeignPid => pc[p] \in {"gp_probe", "gp_unlink"}

\* C6: a process reading a name's PID file while it is being written never
\* reads an empty or partially written file.
C6_NoPartialRead == ~sawPartial

\* C9: a process that had started and not yet registered when a stop/toggle
\* request for its name found no PID file does not go on to run a capture
\* session: the request is not lost.
C9_StopBeforeRegistrationKept ==
  \A q \in Procs : stopPending[q] => pc[q] # "capture"

\* C2: of the processes that call toggle() on a name, no two are at the same
\* time holding the verdict "not running, start a new one".
C2_NoDoubleStart ==
  \A p \in Procs : \A q \in Procs :
    (p # q /\ Alive(p) /\ Alive(q) /\ NameOf(cmd[p]) = NameOf(cmd[q]))
      => ~(pm[p].verdict = "start" /\ pm[q].verdict = "start")

\* C3: when toggle() has obtained the lock and returns, then if its
\* is_running() reported running the recorded process has been stopped and the
\* verdict is is_now_running = False ("stopped"); otherwise the verdict is
\* is_now_running = True ("start") and toggle has sent no signal and opened
\* no file.
C3_ToggleVerdict ==
  \A p \in Procs :
    pc[p] = "t_release" =>
      /\ pm[p].running = "yes" => (pm[p].verdict = "stopped" /\ ~PidAlive(rd[p]))
      /\ pm[p].running = "no" => (pm[p].verdict = "start" /\ pm[p].sigLog = <<>> /\ fd[p] = <<>>)

\* The parts of C3 that the code keeps: toggle never returns "stopped" while
\* the process it recorded is alive, and the not-running branch sends and
\* writes nothing.
C3_Kept ==
  \A p \in Procs :
    pc[p] = "t_release" =>
      /\ (pm[p].running = "yes" /\ pm[p].verdict = "stopped") => ~PidAlive(rd[p])
      /\ pm[p].running = "yes" => pm[p].verdict \in {"stopped", "failed"}
      /\ pm[p].running = "no" => (pm[p].verdict = "start" /\ pm[p].sigLog = <<>> /\ fd[p] = <<>>)

IsPrefix(s, t) == Len(s) <= Len(t) /\ \A i \in 1..Len(s) : s[i] = t[i]

\* C7: the signals a stop_process call has sent are a prefix of SIGINT,
\* SIGTERM, SIGKILL; SIGTERM was sent only after every check of the wait loop
\* found the target alive until the timeout elapsed, SIGKILL only after the
\* final check found it alive; and once a check has seen the target gone, no
\* further signal is sent.
C7_EscalationOrder ==
  /\ [](\A p \in Procs :
          /\ IsPrefix(pm[p].sigLog, <<"INT", "TERM", "KILL">>)
          /\ Len(pm[p].sigLog) >= 2 => pm[p].polls = GracePolls
          /\ Len(pm[p].sigLog) = 3 => pm[p].finalAlive)
  /\ [][\A p \in Procs :
          pm[p].seenDead => (pm'[p].sigLog = pm[p].sigLog \/ pm'[p] = PmInit)]_vars

C7_Witness == \E p \in Procs : pm[p].sigLog = <<"INT", "TERM", "KILL">>

\* Process p is inside stop_process.
InStop(p) ==
  \/ pc[p] \in {"sp_int", "sp_poll", "sp_term", "sp_final", "sp_kill", "sp_cleanup"}
  \/ (site[p] = "stopproc" /\ pc[p] \in {"ir_exists", "ir_read", "ir_probe", "ir_cmdline", "ir_cleanup"})

\* stop_process has returned True after SIGINT, SIGTERM and SIGKILL, and the
\* PID file is gone.
StoppedByKill(p) ==
  /\ pc[p] = "t_release"
  /\ pm[p].verdict = "stopped"
  /\ pm[p].sigLog = <<"INT", "TERM", "KILL">>
  /\ pidPath[NameOf(cmd[p])] = <<>>

\* The target has gone without SIGKILL: it did not ignore the signals.
TargetWentByItself(p) ==
  /\ rd[p] # 0
  /\ ~PidAlive(rd[p])
  /\ pm[p].sigLog # <<"INT", "TERM", "KILL">>

\* C8: every stop_process call returns; and one that reaches its SIGINT
\* either sees its target go without SIGKILL (at some point the target was not
\* ignoring the signals) or ends having sent SIGKILL, removed the PID file and
\* returned True.
C8_StopTerminates ==
  \A p \in Callers :
    /\ InStop(p) ~> ~InStop(p)
    /\ (pc[p] = "sp_int") ~> (StoppedByKill(p) \/ TargetWentByItself(p))

C8_Witness == \E p \in Procs : StoppedByKill(p)

\* Process p has its stream open and can read from it.
Capturing(p) == Alive(p) /\ micOpen[p]

\* The PID file of p's name holds the PID of p.
OwnPidFile(p) ==
  LET path == pidPath[NameOf(cmd[p])]
  IN path # <<>> /\ ParsePid(data[path[1]]) = PidOf(p)

\* A listen process whose handler has run for a SIGINT received in its session.
Interrupted(p) == Alive(p) /\ cmd[p] = "listen" /\ stopFlag[p]

C11_StopsReading ==
  [][\A p \in Procs :
       (cmd[p] = "listen" /\ stopFlag[p]) =>
          /\ chunks'[p] > chunks[p] => pc'[p] # "body"
          /\ pc[p] = "post" => pc'[p] # "body"]_vars

\* C12: a SIGHUP that reaches a registered capture process (listen or long
\* dictation) leaves the process where it is and changes neither its stop
\* flag nor the PID file.
C12_SighupIgnored ==
  [][\A p \in Procs :
       Sighup(p) => (pc'[p] = pc[p] /\ stopFlag'[p] = stopFlag[p] /\ pidPath' = pidPath)]_vars

\* C13: no registered capture process is terminated by the SIGTERM of
\* stop_process (exit status 128 + 15): the signal is handled as SIGINT is, and
\* the process exits by itself with status 0.
C13_TermIsGraceful ==
  \A p \in Procs :
    (cmd[p] \in {"listen", "long"} /\ pc[p] = "done") => st[p] # 143

\* Where a caller of toggle() is between acquire_lock's True and release_lock.
LockedPcs ==
  {"ir_exists", "ir_read", "ir_probe", "ir_cmdline", "ir_cleanup", "sp_int",
   "sp_poll", "sp_term", "sp_final", "sp_kill", "sp_cleanup", "t_release"}

\* acquire_lock has returned True to p and p has not yet released the lock.
HoldsLock(p) == Alive(p) /\ cmd[p] \in {"toggle", "toggle-ld"} /\ pc[p] \in LockedPcs

\* C14: a caller to which acquire_lock returned True holds the lock of its
\* name and no other caller holds it at the same time; acquire_lock makes at
\* most LockTries attempts and can always take its next step (it never
\* blocks); and it has returned False only after the timeout, every attempt
\* having found the lock taken.
C14_AcquireLock ==
  /\ \A p \in Procs : HoldsLock(p) => lockHolder[NameOf(cmd[p])] = p
  /\ \A p \in Procs : \A q \in Procs :
       (p # q /\ HoldsLock(p) /\ HoldsLock(q)) => NameOf(cmd[p]) # NameOf(cmd[q])
  /\ \A p \in Procs : pm[p].tries <= LockTries
  /\ \A p \in Procs :
       pc[p] = "t_acquire" => ENABLED (AcquireLock(p) \/ AcquireRetry(p) \/ AcquireTimeout(p))
  /\ \A p \in Procs : pm[p].verdict = "busy" => pm[p].tries = LockTries

C14_Witness ==
  \E p \in Procs : \E q \in Procs :
    /\ pm[p].verdict = "busy"
    /\ HoldsLock(q)
    /\ NameOf(cmd[q]) = NameOf(cmd[p])

\* C15: a step of toggle() in acquire_lock either obtains the lock, or sends
\* no signal and leaves the PID file, the temporary file and their contents as
\* they are; and when acquire_lock gives up, toggle returns normally with the
\* busy result.
C15_BusyIsHarmless ==
  [][\A p \in Procs :
       (pc[p] = "t_acquire" /\ (pm'[p] # pm[p] \/ pc'[p] # pc[p])) =>
          \/ (pc'[p] = "ir_exists" /\ lockHolder'[NameOf(cmd[p])] = p)
          \/ /\ pc'[p] \in {"t_acquire", "t_ret"}
             /\ pc'[p] = "t_ret" => (pm'[p].verdict = "busy" /\ pm'[p].sigLog = <<>>)
             /\ pend' = pend
             /\ foreignSigs' = foreignSigs
             /\ pidPath' = pidPath /\ tmpPath' = tmpPath /\ data' = data
             /\ fd'[p] = <<>>]_vars

C15_Witness ==
  \E p \in Procs : \E q \in Procs :
    /\ pc[p] = "t_ret"
    /\ pm[p].verdict = "busy"
    /\ pm[p].sigLog = <<>>
    /\ HoldsLock(q)
    /\ NameOf(cmd[q]) = NameOf(cmd[p])
    /\ pidPath[NameOf(cmd[p])] # <<>>

\* C16: whoever holds a name's lock is a live process inside toggle() for that
\* name, between acquire_lock and release_lock; a process that has returned
\* from toggle(), that is in its capture command (PID registration, capture
\* and streaming, the request to the server) or that has exited holds no lock.
C16_LockOnlyInToggle ==
  /\ \A n \in Names :
       lockHolder[n] # 0 =>
          (HoldsLock(lockHolder[n]) /\ NameOf(cmd[lockHolder[n]]) = n)
  /\ \A p \in Procs :
       (cmd[p] \in {"listen", "long"} \/ pc[p] \in {"t_ret", "done"}) =>
          \A n \in Names : lockHolder[n] # p

C16_Witness ==
  \E p \in Procs :
    /\ cmd[p] = "listen" /\ pc[p] = "capture"
    /\ pm[p].verdict = "start"
    /\ \A n \in Names : lockHolder[n] # p

\* C17: no lock outlives its holder, so an acquire_lock that finds no live
\* holder within its attempts is granted the lock; and an is_running() that
\* found the recorded process gone has removed the PID file and returned
\* not-running, after which toggle() does not report a failure or a running
\* process to stop.
C17_SelfHealing ==
  /\ \A n \in Names : lockHolder[n] # 0 => Alive(lockHolder[n])
  /\ \A p \in Procs :
       (pc[p] = "t_acquire" /\ pm[p].tries < LockTries /\ lockHolder[NameOf(cmd[p])] = 0) =>
          ENABLED AcquireLock(p)
  /\ \A p \in Procs :
       (pc[p] \in {"t_release", "t_ret"} /\ pm[p].found = "dead") =>
          /\ pm[p].res = "no"
          /\ pm[p].gone
          /\ pm[p].verdict \in {"start", "stopped"}

C17_Witness ==
  \E p \in Procs : \E q \in Procs :
    /\ cmd[q] = "toggle" /\ pc[q] = "done" /\ st[q] = 137
    /\ cmd[p] = "toggle" /\ pc[p] = "t_ret"
    /\ pm[p].found = "dead" /\ pm[p].res = "no" /\ pm[p].gone
    /\ pm[p].verdict = "start"

\* C18: a step that puts content into a name's PID file is taken by the
\* process whose PID that content is; and a step that deletes a PID file
\* recording a live process is taken by that process itself.
C18_PidFileFrame ==
  [][\A n \in Names :
       /\ (/\ pidPath'[n] # <<>>
           /\ data'[pidPath'[n][1]] # <<>>
           /\ (pidPath'[n] # pidPath[n] \/ data'[pidPath'[n][1]] # data[pidPath'[n][1]])) =>
             \E q \in Procs :
               /\ Alive(q)
               /\ pc'[q] # pc[q]
               /\ data'[pidPath'[n][1]] = Str(PidOf(q))
       /\ (pidPath[n] # <<>> /\ pidPath'[n] = <<>>) =>
             \A q \in Procs :
               (Alive(q) /\ PidOf(q) = ParsePid(Strip(data[pidPath[n][1]]))) =>
                  (pc'[q] # pc[q] \/ stopFlag'[q] # stopFlag[q] \/ pend'[q] # pend[q])]_vars

\* The last n elements of sequence s (all of s if it has fewer).
LastOf(s, n) == IF Len(s) <= n THEN s ELSE SubSeq(s, Len(s) - n + 1, Len(s))

\* C19: the turn of the loop in which the segmenter goes from WAITING to
\* SPEAKING after k waiting chunks yields the last min(k, N) of the chunks
\* 1..k in capture order and then chunk k + 1, nothing having been yielded
\* before, and leaves the pre-speech buffer empty.
C19_PrePaddingFlushed ==
  [][(~seg.is_speaking /\ seg'.is_speaking) =>
       LET k == Len(seg.read)
       IN /\ seg.yielded = <<>>
          /\ seg'.yielded = Append(LastOf([i \in 1..k |-> i], num_pre_padding_chunks), k + 1)
          /\ seg'.pre_speech_buffer = <<>>]_vars

C19_Witness ==
  /\ seg.is_speaking
  /\ Len(seg.yielded) = num_pre_padding_chunks + 1
  /\ seg.yielded[1] > 1
  /\ seg.pre_speech_buffer = <<>>

\* Chunk i of the volumes read is above the threshold and follows at least N
\* chunks, all of them at or below the threshold.
LoudAfterSilence(i) ==
  /\ i > num_pre_padding_chunks
  /\ seg.read[i] > silence_threshold
  /\ \A j \in 1..(i - 1) : seg.read[j] <= silence_threshold

\* The mean of chunk i's volume and of the up to SMOOTHING_WINDOW - 1 volumes
\* read before it is above the threshold.
MeanAbove(i) ==
  LET lo == IF i > SMOOTHING_WINDOW THEN i - SMOOTHING_WINDOW + 1 ELSE 1
  IN SumSeq(SubSeq(seg.read, lo, i)) > silence_threshold * (i - lo + 1)

\* C20 as stated: once a chunk above the threshold has been read after at
\* least N chunks of silence, the segmenter is SPEAKING.
C20_LoudChunkTriggers ==
  (\E i \in 1..Len(seg.read) : LoudAfterSilence(i)) => seg.is_speaking

\* C20, amended: the segmenter is SPEAKING exactly when it has read a chunk at
\* which the mean of the last SMOOTHING_WINDOW volumes was above the
\* threshold; a chunk of SMOOTHING_WINDOW times the threshold or more above
\* silence is such a chunk whatever came before it.
C20_SmoothedTriggers ==
  /\ seg.is_speaking <=> (\E i \in 1..Len(seg.read) : MeanAbove(i))
  /\ (\E i \in 1..Len(seg.read) : seg.read[i] > SMOOTHING_WINDOW * silence_threshold) =>
        seg.is_speaking

C20_Witness ==
  /\ seg.is_speaking
  /\ \E i \in 1..Len(seg.read) : LoudAfterSilence(i) /\ ~MeanAbove(i)

\* The number of chunks at the end of those read at which the smoothed volume
\* was not above the threshold.
TrailingQuiet ==
  LET n == Len(seg.read)
  IN Cardinality({i \in 1..n : \A j \in i..n : ~MeanAbove(j)})

\* C21: while SPEAKING the count of silence is the number of chunks read last
\* in a row whose smoothed volume was not above the threshold (a chunk above
\* it makes the count 0); those chunks have all been yielded; the utterance
\* goes on while the count is at most max_silent_chunks_to_stop and is ended
\* by silence at the chunk that makes it one more.
C21_SilenceEndsUtterance ==
  seg.is_speaking =>
    /\ seg.silent_chunks_count = TrailingQuiet
    /\ LastOf(seg.yielded, TrailingQuiet) =
         [i \in 1..TrailingQuiet |-> Len(seg.read) - TrailingQuiet + i]
    /\ ~seg.ended => seg.silent_chunks_count <= MaxSilent
    /\ seg.silent_chunks_count > MaxSilent => (seg.ended /\ seg.why = "silence")
    /\ seg.why = "silence" => seg.silent_chunks_count = MaxSilent + 1

C21_Witness ==
  /\ seg.is_speaking
  /\ seg.why = "silence"
  /\ \E i \in 1..Len(seg.read) : \E j \in 1..Len(seg.read) : \E k \in 1..Len(seg.read) :
       i < j /\ j < k /\ MeanAbove(i) /\ ~MeanAbove(j) /\ MeanAbove(k)

\* C22: in a call with a limit, the chunks yielded (pre-speech padding and
\* trailing silence among them) are chunks read, each yielded once and in
\* capture order, and are never more than max_total_chunks.
C22_UtteranceBounded ==
  ~seg.unlimited =>
    /\ Len(seg.yielded) <= seg.max_total_chunks
    /\ Len(seg.read) <= seg.max_total_chunks
    /\ \A i \in 1..Len(seg.yielded) : seg.yielded[i] \in 1..Len(seg.read)
    /\ \A i \in 1..Len(seg.yielded) : \A j \in 1..Len(seg.yielded) :
         i < j => seg.yielded[i] < seg.yielded[j]

C22_Witness ==
  /\ ~seg.unlimited
  /\ seg.silence_threshold > 0
  /\ Len(seg.yielded) = seg.max_total_chunks
  /\ seg.read[1] = 0
  /\ seg.silent_chunks_count > 0

\* C23: in a call with a limit, the generator has ended or has made at most
\* max_total_chunks read attempts, whatever the reads returned.
C23_AttemptsBounded ==
  (~seg.unlimited /\ ~seg.ended) => seg.attempts <= seg.max_total_chunks

\* C24: a call made with max_duration None has no limit on its chunks: its
\* generator is ended by silence after speech or by a read error, never by
\* the loop condition.
C24_NoneIsUnlimited ==
  seg.max_duration = "None" => (seg.unlimited /\ seg.why \in {"none", "silence", "error"})

\* The chunks read have all been yielded, in capture order, and nothing is
\* kept in the pre-speech buffer or counted as silence.
AllYielded ==
  /\ seg.yielded = [i \in 1..Len(seg.read) |-> i]
  /\ seg.pre_speech_buffer = <<>>
  /\ seg.silent_chunks_count = 0
  /\ ~seg.is_speaking

\* C25 as stated: with a threshold of 0 every chunk read has been yielded
\* and nothing is buffered, and the generator ends by the chunk limit alone.
C25_NoVadEndsByLimitOnly ==
  seg.silence_threshold = 0 =>
    (AllYielded /\ (seg.ended => seg.why = "limit"))

\* C25, amended: with a threshold of 0 every chunk read has been yielded and
\* nothing is buffered; the generator ends by the chunk limit, reached with
\* max_total_chunks reads, or by a read error, and never by silence.
C25_NoVadStreams ==
  seg.silence_threshold = 0 =>
    /\ AllYielded
    /\ seg.ended => seg.why \in {"limit", "error"}
    /\ seg.why = "limit" => seg.total_chunks_processed = seg.max_total_chunks

C25_Witness ==
  /\ seg.silence_threshold = 0
  /\ seg.why = "limit"
  /\ Len(seg.yielded) = seg.max_total_chunks
  /\ \A i \in 1..Len(seg.read) : seg.read[i] = 0

\* C30: a read that fails with input overflow yields nothing and leaves
\* is_speaking, the count of silence, the pre-speech buffer, the volume
\* history and the count of chunks as they were; the generator has not ended
\* and reads again unless its limit had been reached before.
C30_OverflowSkipped ==
  [][SegOverflow =>
       /\ seg'.yielded = seg.yielded
       /\ seg'.read = seg.read
       /\ seg'.is_speaking = seg.is_speaking
       /\ seg'.silent_chunks_count = seg.silent_chunks_count
       /\ seg'.pre_speech_buffer = seg.pre_speech_buffer
       /\ seg'.volume_history = seg.volume_history
       /\ seg'.speech_has_started_and_padded = seg.speech_has_started_and_padded
       /\ seg'.total_chunks_processed = seg.total_chunks_processed
       /\ ~seg'.ended
       /\ seg'.why = "none"]_vars

C30_Witness ==
  /\ seg.attempts > seg.total_chunks_processed
  /\ seg.is_speaking
  /\ seg.silent_chunks_count > 0
  /\ ~seg.ended
  /\ seg.total_chunks_processed = Len(seg.read)

\* C26: no listen session that has read chunks for its whole duration without
\* detecting speech has a request to the backend in progress.
C26_SilenceMakesNoRequest ==
  \A p \in Procs :
    (cmd[p] = "listen" /\ ~speaking[p] /\ chunks[p] = MaxChunks) => pc[p] \notin {"body", "resp"}

\* C27: a listen session that leaves its capture without speech detected and
\* without a failure of its input device leaves it with status 0.
C27_NoSpeechExitsZero ==
  [][\A p \in Procs :
       (/\ cmd[p] = "listen"
        /\ pc[p] \in SessionPcs
        /\ pc'[p] \in {"finish", "done"}
        /\ ~speaking'[p]
        /\ devErr'[p] = "none") => st'[p] = 0]_vars

\* C28: a listen session whose input device could not be found or opened
\* ends with a status other than 0.
C28_NoDeviceFails ==
  \A p \in Procs :
    (cmd[p] = "listen" /\ pc[p] = "done" /\ devErr[p] = "open") => st[p] # 0

\* C29: a listen session in which a chunk read failed with an error other
\* than input overflow ends with a status other than 0.
C29_ReadErrorFails ==
  \A p \in Procs :
    (cmd[p] = "listen" /\ pc[p] = "done" /\ devErr[p] = "read") => st[p] # 0

RECURSIVE ChunksBytes(_)
\* The bytes of the first n chunks the segmenter has yielded, one after the
\* other.
ChunksBytes(n) ==
  IF n = 0 THEN <<>> ELSE ChunksBytes(n - 1) \o ChunkBytes(seg.yielded[n])

\* C31: the body of a request that has begun is the header line
\* {"rate": RATE} with its newline and then the bytes of the chunks the
\* segmenter yielded before the stop point, in the order yielded, each once
\* and as read, and nothing else; a body completed without a stop holds
\* every chunk yielded.
C31_BodyFraming ==
  req.state # "idle" =>
    /\ req.taken <= Len(seg.yielded)
    /\ Len(req.body) >= Len(Str(RATE)) + 11
    /\ SubSeq(req.body, 1, Len(Str(RATE)) + 11) =
         <<123, 34, 114, 97, 116, 101, 34, 58, 32, 49, 54, 48, 48, 48, 125, 10>>
    /\ SubSeq(req.body, Len(Str(RATE)) + 12, Len(req.body)) = ChunksBytes(req.taken)
    /\ (req.state = "closed" /\ ~(req.mode = "listen" /\ req.stop)) =>
          req.taken = Len(seg.yielded)
    /\ (req.state = "closed" /\ req.taken < Len(seg.yielded)) => req.stop

C31_Witness ==
  /\ req.state = "closed"
  /\ req.mode = "listen"
  /\ req.stop
  /\ req.taken > num_pre_padding_chunks
  /\ req.taken < Len(seg.yielded)

\* C32: a long-dictation process one of whose streaming requests has failed
\* with a network error issues no further streaming request: the failure
\* ends the session.
C32_NoRetryAfterNetworkError ==
  \A p \in Procs :
    (cmd[p] = "long" /\ net[p] # "none") => net[p] # "retried"

\* C33: the threshold calibrate_microphone returns after a measurement lies
\* within [silence_threshold_min, silence_threshold_max], for every sequence
\* of volumes and every configured band.
C33_ThresholdInBand ==
  (cal.state = "returned" /\ cal.dev = "ok" /\ cal.volumes # <<>>) =>
     /\ cal.threshold_min * 100 <= cal.result
     /\ cal.result <= cal.threshold_max * 100

\* C34: calibrate_microphone never raises to its caller, and on no device
\* and on open failure it returns the configured fallback threshold.
C34_CalibrationNeverRaises ==
  /\ cal.state # "raised"
  /\ (cal.state = "returned" /\ cal.dev \in {"nodevice", "openfail"}) =>
        cal.result = cal.fallback * 100

\* C36: the word count of every snapshot the auto-save task writes is the
\* number of words in the segments the snapshot sees.
C36_SnapshotConsistent ==
  session.snapshots > 0 =>
    session.snap_word_count = SumSeq(SubSeq(session.transcript, 1, session.snap_segments))

\* C35: a signal handler of a capture process changes only the stop flag: the
\* step in which an installed handler runs leaves the PID files in place and
\* does not move the process towards its exit.
C35_HandlerOnlySetsFlag ==
  [][\A p \in Procs :
       (handlers[p] /\ HandleSigint(p)) =>
          /\ pidPath' = pidPath
          /\ pc'[p] = pc[p]
          /\ st'[p] = st[p]]_vars

\* C37: from the moment a listen process has registered until it exits, the
\* listen PID file exists and holds its PID. Stated for a listen process
\* beside which the only other processes are stop requests under way.
C37_RegisteredIsVisible ==
  \A p \in Procs :
    (/\ cmd[p] = "listen"
     /\ pc[p] \in RegisteredPcs
     /\ \A q \in Procs \ {p} : cmd[q] = "none" \/ (Alive(q) /\ site[q] = "stop")) =>
       /\ pidPath["listen"] # <<>>
       /\ ParsePid(Strip(data[pidPath["listen"][1]])) = PidOf(p)

\* C38: when run_listen_command has returned, on whatever path, the PID file
\* it wrote at start is gone: no listen PID file holds the PID of a listen
\* process that has returned.
C38_NoPidFileLeft ==
  \A p \in Procs :
    (cmd[p] = "listen" /\ pc[p] = "done" /\ st[p] \in {0, 1}) =>
       ~(/\ pidPath["listen"] # <<>>
         /\ ParsePid(Strip(data[pidPath["listen"][1]])) = PidOf(p))

\* C39: when stop_process returns and the target has exited, at whatever
\* moment it did, stop_process returns True and the PID file is removed.
C39_StopSucceedsWhenTargetGone ==
  \A p \in Procs :
    (pc[p] = "t_release" /\ pm[p].running = "yes" /\ ~PidAlive(rd[p])) =>
       /\ pm[p].verdict = "stopped"
       /\ pidPath[NameOf(cmd[p])] = <<>>

\* C40: a long-dictation session interrupted by SIGINT runs its stop sequence
\* before it removes its PID file and exits: the step in which its handler
\* takes the signal leaves the PID file in place and takes the session into
\* the stop sequence.
C40_StopSequenceFirst ==
  [][\A p \in Procs :
       (cmd[p] = "long" /\ handlers[p] /\ HandleSigint(p)) =>
          /\ pidPath'["long_dictation"] = pidPath["long_dictation"]
          /\ pc'[p] = LongExceptClause("KeyboardInterrupt")]_vars

====
